---------------------------- MODULE Spec2Model ----------------------------
(***************************************************************************)
(* FinAI: the conversational transaction-intake pipeline (App.tsx), the    *)
(* localStorage-backed record store and its aggregation (dataService), and *)
(* the playback controller of the chat interface (ChatInterface).          *)
(*                                                                         *)
(* Conventions.  A JavaScript object is a TLA+ record whose DOMAIN is the  *)
(* set of properties it has: a missing property is a missing field.        *)
(* Amounts are integers (every integer below 2^53 is an exact double).     *)
(* A timestamp is the number of hours since 2024-01-01T00:00Z.  A category *)
(* is a string.  An id made by crypto.randomUUID() is a fresh integer.     *)
(***************************************************************************)
EXTENDS Integers, Sequences, FiniteSets, TLC

VARIABLES
    tzOffset,        \* hours the local clock is ahead of UTC
    lsTransactions,  \* localStorage["finai_transactions"], parsed
    lsBudgets,       \* localStorage["finai_budgets"], parsed
    lsGoals,         \* localStorage["finai_goals"], parsed
    lsKeys,          \* the keys localStorage has an item for
    transactions,    \* App state `transactions`
    budgets,         \* App state `budgets`
    goals,           \* App state `goals`
    summary,         \* App state `summary`
    isLoading,       \* App state `isLoading`
    messages,        \* App state `messages`
    isProcessing,    \* App state `isProcessing`
    turns,           \* the calls of handleSendMessage and where each stands
    timers,          \* the pending setTimeout(resolve, 300) of getTransactions, oldest first
    nextId,          \* the next value of crypto.randomUUID()
    edits,           \* dashboard requests made so far
    playingId,       \* ChatInterface state `playingId`
    isPaused,        \* ChatInterface state `isPaused`
    audioCtx,        \* audioCtxRef.current: "none", or the state of the AudioContext
    sourceNodeRef,   \* sourceNodeRef.current: 0, or the number of a source node
    sources,         \* the AudioBufferSourceNodes created so far
    synthCalls,      \* the pending calls of generateSpeech made by playAudio
    ctxOps,          \* the pending suspend() and resume() of the AudioContext, oldest first
    input,           \* ChatInterface state `input`
    isRecording,     \* ChatInterface state `isRecording`
    isTranscribing,  \* ChatInterface state `isTranscribing`
    mediaRecorderRef, \* mediaRecorderRef.current: 0, or the number of a recorder
    recorders,       \* the MediaRecorders created so far, each with where its clip stands
    micCalls,        \* the pending calls of getUserMedia
    alerts           \* the alerts shown so far

otherStoreVars == <<lsBudgets, lsGoals, lsKeys>>
storeVars == <<lsTransactions, otherStoreVars>>
viewVars == <<transactions, budgets, goals, summary, isLoading>>
chatVars == <<messages, isProcessing, turns>>

appVars == <<tzOffset, storeVars, viewVars, chatVars, timers, nextId, edits>>
audioVars == <<playingId, isPaused, audioCtx, sourceNodeRef, sources, synthCalls, ctxOps>>

captureVars == <<input, isRecording, isTranscribing, mediaRecorderRef, recorders,
                 micCalls, alerts>>

vars == <<appVars, audioVars, captureVars>>

----------------------------------------------------------------------------
(* Bounds of the model *)

\* longest transaction collection the aggregation is applied to
MaxTx == 3

\* chat turns submitted in one run
MaxTurns == 2

\* dashboard requests (edit, delete, reset) made in one run
MaxEdits == 1

\* play requests that reach generateSpeech in one run
MaxSources == 3

\* suspend() and resume() requests pending at once
MaxCtxOps == 1

\* budgets in the list the status of a turn is built from
MaxBudgets == 2

----------------------------------------------------------------------------
(* useState<string | null>(null): the id that is no message's *)

NoId == 0 - 1

\* STORAGE_KEYS
StorageKeys == {"finai_transactions", "finai_budgets", "finai_goals"}

\* ChatInterface as mounted: no text, no recording, no transcription
CaptureIdle ==
    /\ input = ""
    /\ isRecording = FALSE
    /\ isTranscribing = FALSE
    /\ mediaRecorderRef = 0
    /\ recorders = <<>>
    /\ micCalls = 0
    /\ alerts = 0

----------------------------------------------------------------------------
(* types: TransactionType *)

EXPENSE == "EXPENSE"
INCOME == "INCOME"

\* a kind outside the enum, as an unvalidated collaborator response may carry
OtherKind == "TRANSFER"

----------------------------------------------------------------------------
(* JavaScript Date, for the timestamps the service handles *)

EpochYear == 2024
HoursPerDay == 24

IsLeap(y) == (y % 4 = 0 /\ y % 100 # 0) \/ y % 400 = 0

DaysInYear(y) == IF IsLeap(y) THEN 366 ELSE 365

DaysInMonth(y, m) ==
    IF m = 2 THEN (IF IsLeap(y) THEN 29 ELSE 28)
    ELSE IF m \in {4, 6, 9, 11} THEN 30 ELSE 31

\* the calendar date of day number d (0 = 1 January of year y, month m)
RECURSIVE CivilFrom(_, _, _)
CivilFrom(y, m, d) ==
    IF m = 1 /\ d >= DaysInYear(y) THEN CivilFrom(y + 1, 1, d - DaysInYear(y))
    ELSE IF d >= DaysInMonth(y, m) THEN CivilFrom(y, m + 1, d - DaysInMonth(y, m))
    ELSE [year |-> y, month |-> m, day |-> d + 1]

Civil(dayNumber) == CivilFrom(EpochYear, 1, dayNumber)

\* date.toISOString().split('T')[0]: the UTC calendar day "YYYY-MM-DD", kept
\* as the number YYYYMMDD (for four-digit years the order of the strings is
\* the order of the numbers)
IsoDayKey(date) ==
    LET c == Civil(date \div HoursPerDay)
    IN  c.year * 10000 + c.month * 100 + c.day

\* date.toLocaleString('pt-BR', { month: 'short' }): the month name of the
\* local calendar date, kept as the month number 1..12
LocalMonthKey(date, tz) == Civil((date + tz) \div HoursPerDay).month

----------------------------------------------------------------------------
(* DataService.calculateSummary *)

\* Index of the entry of `map` (a sequence of records with a `name` field,
\* in insertion order, as the keys of a JavaScript object) for `key`; 0 if none
KeyIndex(map, key) ==
    IF \E i \in 1..Len(map) : map[i].name = key
    THEN CHOOSE i \in 1..Len(map) : map[i].name = key
    ELSE 0

\* a slip: the entry is overwritten instead of added to
AddToMapOverwrite(map, key, amount) ==
    LET i == KeyIndex(map, key)
    IN  IF i = 0
        THEN Append(map, [name |-> key, value |-> amount])
        ELSE [map EXCEPT ![i].value = amount]

\* categoryMap[k] = (categoryMap[k] || 0) + amount
\* dailyData[k] = (dailyData[k] || 0) + amount
AddToMap(map, key, amount) ==
    LET i == KeyIndex(map, key)
    IN  IF i = 0
        THEN Append(map, [name |-> key, value |-> 0 + amount])
        ELSE [map EXCEPT ![i].value = (IF @ = 0 THEN 0 ELSE @) + amount]

\* a slip: a bucket is made for every record, also when the month has one
EnsureMonthAlways(map, key) ==
    Append(map, [name |-> key, income |-> 0, expense |-> 0])

\* if (!monthlyData[monthKey]) monthlyData[monthKey] = { income: 0, expense: 0 }
EnsureMonth(map, key) ==
    IF KeyIndex(map, key) = 0
    THEN Append(map, [name |-> key, income |-> 0, expense |-> 0])
    ELSE map

\* a slip: the accumulators start with a bucket for January
EmptyAccSeeded ==
    [totalIncome |-> 0, totalExpense |-> 0, categoryMap |-> <<>>,
     monthlyData |-> << [name |-> 1, income |-> 0, expense |-> 0] >>,
     dailyData |-> <<>>]

EmptyAcc ==
    [totalIncome |-> 0, totalExpense |-> 0,
     categoryMap |-> <<>>, monthlyData |-> <<>>, dailyData |-> <<>>]

\* the body of transactions.forEach(t => ...)
SummaryStep(acc, t, tz) ==
    LET monthKey == LocalMonthKey(t.date, tz)
        md == EnsureMonth(acc.monthlyData, monthKey)
        mi == KeyIndex(md, monthKey)
    IN  IF t.type = INCOME
        THEN [acc EXCEPT !.totalIncome = @ + t.amount,
                         !.monthlyData = [md EXCEPT ![mi].income = @ + t.amount]]
        ELSE [acc EXCEPT !.totalExpense = @ + t.amount,
                         !.monthlyData = [md EXCEPT ![mi].expense = @ + t.amount],
                         !.categoryMap = AddToMap(@, t.category, t.amount),
                         !.dailyData = AddToMap(@, IsoDayKey(t.date), t.amount)]

RECURSIVE SummaryFold(_, _, _)
SummaryFold(acc, txs, tz) ==
    IF txs = <<>> THEN acc
    ELSE SummaryFold(SummaryStep(acc, Head(txs), tz), Tail(txs), tz)

\* Array.prototype.sort() on the day keys: ascending
RECURSIVE SortKeys(_)
SortKeys(keys) ==
    IF keys = {} THEN <<>>
    ELSE LET least == CHOOSE k \in keys : \A j \in keys : k <= j
         IN  <<least>> \o SortKeys(keys \ {least})

MapKeys(map) == {map[i].name : i \in 1..Len(map)}

DailyExpensesOf(dailyData) ==
    LET sorted == SortKeys(MapKeys(dailyData))
    IN  [i \in 1..Len(sorted) |->
            [date |-> <<sorted[i] % 100, (sorted[i] \div 100) % 100>>,
             originalDate |-> sorted[i],
             amount |-> dailyData[KeyIndex(dailyData, sorted[i])].value]]

calculateSummary(txs, tz) ==
    LET acc == SummaryFold(EmptyAcc, txs, tz)
    IN  [totalIncome |-> acc.totalIncome,
         totalExpense |-> acc.totalExpense,
         balance |-> acc.totalIncome - acc.totalExpense,
         expensesByCategory |-> acc.categoryMap,
         monthlyCashflow |-> acc.monthlyData,
         dailyExpenses |-> DailyExpensesOf(acc.dailyData)]

\* useState<FinancialSummary>({...}) in App
InitialSummary ==
    [totalIncome |-> 0, totalExpense |-> 0, balance |-> 0,
     expensesByCategory |-> <<>>, monthlyCashflow |-> <<>>, dailyExpenses |-> <<>>]

----------------------------------------------------------------------------
(* The aggregation applied to every stored collection up to MaxTx records *)

\* America/Sao_Paulo, the zone of the pt-BR user, is three hours behind UTC
BrasiliaOffset == 0 - 3

TzOffsets == {BrasiliaOffset, 0}

\* 2024-01-31T22:00Z, 2024-02-01T01:00Z and 2025-01-31T12:00Z
SampleDates == {30 * 24 + 22, 31 * 24 + 1, (366 + 30) * 24 + 12}

SampleCategories == {"Alimentação", "alimentação"}

SampleAmounts == {25, 40}

\* the records a stored collection may hold: what handleSendMessage accepts
\* (a truthy amount, category and type) with the date parseTransaction made
SampleRecords ==
    [type : {EXPENSE, INCOME, OtherKind}, amount : SampleAmounts,
     category : SampleCategories, date : SampleDates]

RECURSIVE SeqsUpTo(_, _)
SeqsUpTo(S, n) ==
    IF n = 0 THEN {<<>>}
    ELSE LET shorter == SeqsUpTo(S, n - 1)
         IN  shorter \cup {Append(s, x) : s \in {q \in shorter : Len(q) = n - 1}, x \in S}

InitSummary ==
    /\ CaptureIdle
    /\ lsGoals = <<>>
    /\ lsKeys = StorageKeys
    /\ goals = <<>>
    /\ tzOffset \in TzOffsets
    /\ lsTransactions \in SeqsUpTo(SampleRecords, MaxTx)
    /\ lsBudgets = <<>>
    /\ transactions = <<>>
    /\ budgets = <<>>
    /\ summary = InitialSummary
    /\ isLoading = TRUE
    /\ messages = <<>>
    /\ isProcessing = FALSE
    /\ turns = <<>>
    /\ timers = <<>>
    /\ nextId = 1
    /\ edits = 0
    /\ playingId = NoId
    /\ isPaused = FALSE
    /\ audioCtx = "none"
    /\ sourceNodeRef = 0
    /\ sources = <<>>
    /\ synthCalls = <<>>
    /\ ctxOps = <<>>

\* fetchData, reduced to its summary: setSummary(await calculateSummary())
ApplySummary ==
    /\ isLoading
    /\ summary' = calculateSummary(lsTransactions, tzOffset)
    /\ isLoading' = FALSE
    /\ UNCHANGED <<audioVars, captureVars, tzOffset, storeVars, transactions, budgets, goals, chatVars,
                   timers, nextId, edits>>

NextSummary == ApplySummary

SpecSummary == InitSummary /\ [][NextSummary]_vars

----------------------------------------------------------------------------
(* GeminiService.parseTransaction and the responses of its collaborator *)

\* JavaScript null
Null == [null |-> TRUE]

\* the collaborator gave no text
NoText == [text |-> FALSE]

\* generateContent rejects (network, quota), or the text is not JSON
Rejects == [rejects |-> TRUE]

Full == [type |-> EXPENSE, amount |-> 25, category |-> "Alimentação",
         description |-> "Sushi", date |-> 30 * 24 + 22]

\* `r` without its property `f`
Without(r, f) == [g \in DOMAIN r \ {f} |-> r[g]]

\* What JSON.parse(response.text) may be: the complete record of the schema,
\* the same with one required property missing, with a zero or negative
\* amount, with a kind outside the enum, and other complete records.
ParseResponses ==
    { NoText, Rejects, Full,
      [Full EXCEPT !.type = INCOME, !.amount = 40, !.category = "Salário"],
      [Full EXCEPT !.category = "alimentação", !.amount = 40, !.date = 31 * 24 + 1],
      Without(Full, "type"), Without(Full, "amount"), Without(Full, "category"),
      Without(Full, "description"), Without(Full, "date"),
      [Full EXCEPT !.amount = 0], [Full EXCEPT !.amount = 0 - 5],
      [Full EXCEPT !.type = OtherKind] }

\* if (response.text) { data = JSON.parse(response.text);
\*   return { ...data, id: crypto.randomUUID(), date: new Date(data.date).toISOString() } }
\* return null;  and catch (error) { return null }: for a rejected call, and
\* for new Date(undefined), an invalid date whose toISOString() throws
parseTransaction(response, uuid) ==
    IF response \in {NoText, Rejects} THEN Null
    ELSE IF "date" \notin DOMAIN response THEN Null
    ELSE [f \in DOMAIN response \cup {"id"} |->
             IF f = "id" THEN uuid ELSE response[f]]

----------------------------------------------------------------------------
(* App: the budget status of handleSendMessage *)

\* String.prototype.toLowerCase on the category labels in use
ToLowerCase(str) ==
    CASE str = "Alimentação" -> "alimentação"
      [] str = "Salário" -> "salário"
      [] str = "Lazer" -> "lazer"
      [] str = "Contas" -> "contas"
      [] str = "Transporte" -> "transporte"
      [] OTHER -> str

\* a slip: the categories are compared as they are
FindBudgetCaseSensitive(bgs, category) ==
    LET hits == {i \in 1..Len(bgs) : bgs[i].category = category}
    IN  IF hits = {} THEN 0 ELSE CHOOSE i \in hits : \A j \in hits : i <= j

\* budgets.find(b => b.category.toLowerCase() === category.toLowerCase()):
\* the index of the first such budget, 0 if none
FindBudget(bgs, category) ==
    LET hits == {i \in 1..Len(bgs) :
                    ToLowerCase(bgs[i].category) = ToLowerCase(category)}
    IN  IF hits = {} THEN 0 ELSE CHOOSE i \in hits : \A j \in hits : i <= j

\* updatedSummary.expensesByCategory.find(c => c.name === category)?.value || 0
CategorySpend(summ, category) ==
    LET i == KeyIndex(summ.expensesByCategory, category)
    IN  IF i = 0 THEN 0 ELSE summ.expensesByCategory[i].value

\* a slip: Math.floor in the place of Math.round
RoundDivDown(n, d) == n \div d

\* Math.round(n / d) for d > 0: the nearest integer, halves upwards
RoundDiv(n, d) == (2 * n + d) \div (2 * d)

\* Math.round((categorySpend / limit) * 100); the division by a zero limit
\* gives Infinity, -Infinity or NaN
Percentage(spend, limit) ==
    IF limit > 0 THEN [value |-> RoundDiv(spend * 100, limit)]
    ELSE IF limit < 0 THEN [value |-> RoundDiv((0 - spend) * 100, 0 - limit)]
    ELSE IF spend > 0 THEN [nonFinite |-> "Infinity"]
    ELSE IF spend < 0 THEN [nonFinite |-> "-Infinity"]
    ELSE [nonFinite |-> "NaN"]

Abs(n) == IF n < 0 THEN 0 - n ELSE n

\* lines 140-155 of App: budgetStatus
BudgetStatus(bgs, tx, summ) ==
    LET b == FindBudget(bgs, tx.category)
    IN  IF b # 0 /\ tx.type = EXPENSE
        THEN LET categorySpend == CategorySpend(summ, tx.category)
                 percentage == Percentage(categorySpend, bgs[b].limit)
                 remaining == bgs[b].limit - categorySpend
             IN  IF remaining < 0
                 THEN [tier |-> "over", overage |-> Abs(remaining),
                       spent |-> categorySpend, percentage |-> percentage]
                 ELSE [tier |-> "within", spent |-> categorySpend,
                       limit |-> bgs[b].limit, percentage |-> percentage,
                       remaining |-> remaining]
        ELSE IF tx.type = INCOME
        THEN [tier |-> "income"]
        ELSE [tier |-> "none"]

----------------------------------------------------------------------------
(* App and DataService: the chat turn, the dashboard requests, the store *)

Turns == 1..MaxTurns

IdleTurn == [pc |-> "idle"]

\* a store left by an earlier session: one expense and its budget
PriorTransactions ==
    << [id |-> 0, type |-> EXPENSE, amount |-> 75, category |-> "Alimentação",
        description |-> "Compras", date |-> 5 * 24 + 3] >>

PriorBudgets == << [id |-> 0, category |-> "Alimentação", limit |-> 100] >>

\* fetchData(): getTransactions() and calculateSummary() each start a timer,
\* getBudgets() and getGoals() read the store at once
FetchTimers(owner, bgs, gls) ==
    << [kind |-> "fetchTx", owner |-> owner],
       [kind |-> "fetchSum", owner |-> owner, bgs |-> bgs, gls |-> gls] >>

\* useEffect: fetchData() and the welcome message
Init ==
    /\ CaptureIdle
    /\ lsGoals = <<>>
    /\ lsKeys = StorageKeys
    /\ goals = <<>>
    /\ tzOffset = BrasiliaOffset
    /\ \E store \in {<< <<>>, <<>> >>, <<PriorTransactions, PriorBudgets>>} :
          /\ lsTransactions = store[1]
          /\ lsBudgets = store[2]
    /\ transactions = <<>>
    /\ budgets = <<>>
    /\ summary = InitialSummary
    /\ isLoading = TRUE
    /\ messages = << [id |-> 0, role |-> "assistant", content |-> "welcome"] >>
    /\ isProcessing = FALSE
    /\ turns = [t \in Turns |-> IdleTurn]
    /\ timers = FetchTimers(0, lsBudgets, lsGoals)
    /\ nextId = 1
    /\ edits = 0
    /\ playingId = NoId
    /\ isPaused = FALSE
    /\ audioCtx = "none"
    /\ sourceNodeRef = 0
    /\ sources = <<>>
    /\ synthCalls = <<>>
    /\ ctxOps = <<>>

AssistantMessage(id, content) ==
    [id |-> id, role |-> "assistant", content |-> content]

\* a slip: handleSubmit does not look at the processing flag
HandleSendMessageUnguarded(t) ==
    /\ turns[t].pc = "idle"
    /\ \A u \in Turns : u < t => turns[u].pc # "idle"
    /\ ~isRecording /\ ~isTranscribing
    /\ input' = ""
    /\ messages' = Append(messages, [id |-> nextId, role |-> "user", content |-> "text"])
    /\ isProcessing' = TRUE
    /\ turns' = [turns EXCEPT ![t] =
                    [pc |-> "parse", userMsg |-> nextId, budgets |-> budgets,
                     persisted |-> <<>>, replies |-> <<>>, thrown |-> {}]]
    /\ nextId' = nextId + 1
    /\ UNCHANGED <<audioVars, isRecording, isTranscribing, mediaRecorderRef, recorders,
                   micCalls, alerts, tzOffset, storeVars, viewVars, timers, edits>>

\* the user completes the text in the input field when it has none, and
\* submits: handleSubmit and handleSendMessage up to the call of
\* parseTransaction
HandleSendMessage(t) ==
    /\ turns[t].pc = "idle"
    /\ \A u \in Turns : u < t => turns[u].pc # "idle"
    /\ ~isProcessing /\ ~isRecording /\ ~isTranscribing
    /\ input' = ""
    /\ messages' = Append(messages, [id |-> nextId, role |-> "user", content |-> "text"])
    /\ isProcessing' = TRUE
    /\ turns' = [turns EXCEPT ![t] =
                    [pc |-> "parse", userMsg |-> nextId, budgets |-> budgets,
                     persisted |-> <<>>, replies |-> <<>>, thrown |-> {}]]
    /\ nextId' = nextId + 1
    /\ UNCHANGED <<audioVars, isRecording, isTranscribing, mediaRecorderRef, recorders,
                   micCalls, alerts, tzOffset, storeVars, viewVars, timers, edits>>

\* the test of line 126
Accepted(parsed) ==
    /\ parsed # Null
    /\ "amount" \in DOMAIN parsed /\ parsed.amount # 0
    /\ "category" \in DOMAIN parsed /\ parsed.category # ""
    /\ "type" \in DOMAIN parsed /\ parsed.type # ""

\* the turn ends: its reply is appended and `finally` clears the flag
EndTurn(t, turn, msg) ==
    /\ messages' = Append(messages, msg)
    /\ isProcessing' = FALSE
    /\ turns' = [turns EXCEPT ![t] =
                    [turn EXCEPT !.pc = "done", !.replies = Append(@, msg)]]

\* parseTransaction returns; on a valid record addTransaction is called,
\* else the clarification is appended
ParseReturns(t, response) ==
    /\ turns[t].pc = "parse"
    /\ LET parsed == parseTransaction(response, nextId)
           turn == [f \in DOMAIN turns[t] \cup {"parsed"} |->
                       IF f = "parsed" THEN parsed
                       ELSE IF f = "thrown" /\ response = Rejects THEN {"parse"}
                       ELSE turns[t][f]]
       IN  IF Accepted(parsed)
           THEN /\ turns' = [turns EXCEPT ![t] = [turn EXCEPT !.pc = "add"]]
                /\ timers' = Append(timers, [kind |-> "add", owner |-> t])
                /\ nextId' = nextId + 1
                /\ UNCHANGED <<messages, isProcessing>>
           ELSE /\ EndTurn(t, turn, AssistantMessage(nextId + 1, "clarification"))
                /\ nextId' = nextId + 2
                /\ UNCHANGED timers
    /\ UNCHANGED <<audioVars, captureVars, tzOffset, storeVars, viewVars, edits>>

\* a slip: the catch block clears the flag and appends nothing
ApologySilent(t, call) ==
    /\ turns' = [turns EXCEPT ![t].pc = "done", ![t].thrown = @ \cup {call}]
    /\ isProcessing' = FALSE
    /\ UNCHANGED <<messages, nextId>>

\* catch (error), entered by the exception of `call`: the apology
Apology(t, call) ==
    /\ EndTurn(t, [turns[t] EXCEPT !.thrown = @ \cup {call}],
               AssistantMessage(nextId, "apology"))
    /\ nextId' = nextId + 1

\* a slip: the record is pushed onto the collection the view holds, not
\* onto the one getTransactions just read
AddTransactionDoneStale(t) ==
    /\ timers # <<>> /\ Head(timers) = [kind |-> "add", owner |-> t]
    /\ lsTransactions' = Append(transactions, turns[t].parsed)
    /\ turns' = [turns EXCEPT ![t].pc = "fetch",
                              ![t].persisted = Append(@, turns[t].parsed.id)]
    /\ timers' = Tail(timers) \o FetchTimers(t, lsBudgets, lsGoals)
    /\ UNCHANGED <<audioVars, captureVars, tzOffset, otherStoreVars, viewVars, messages, isProcessing, nextId, edits>>

\* addTransaction after its getTransactions: push, setItem, then fetchData()
AddTransactionDone(t) ==
    /\ timers # <<>> /\ Head(timers) = [kind |-> "add", owner |-> t]
    /\ lsTransactions' = Append(lsTransactions, turns[t].parsed)
    /\ turns' = [turns EXCEPT ![t].pc = "fetch",
                              ![t].persisted = Append(@, turns[t].parsed.id)]
    /\ timers' = Tail(timers) \o FetchTimers(t, lsBudgets, lsGoals)
    /\ UNCHANGED <<audioVars, captureVars, tzOffset, otherStoreVars, viewVars, messages, isProcessing, nextId, edits>>

\* a slip: the record is written, and then the call rejects
AddTransactionThrowsAfterWrite(t) ==
    /\ timers # <<>> /\ Head(timers) = [kind |-> "add", owner |-> t]
    /\ lsTransactions' = Append(lsTransactions, turns[t].parsed)
    /\ Apology(t, "add")
    /\ timers' = Tail(timers)
    /\ UNCHANGED <<audioVars, captureVars, tzOffset, otherStoreVars, viewVars, edits>>

\* addTransaction rejects: localStorage refuses the read or the write
AddTransactionThrows(t) ==
    /\ timers # <<>> /\ Head(timers) = [kind |-> "add", owner |-> t]
    /\ Apology(t, "add")
    /\ timers' = Tail(timers)
    /\ UNCHANGED <<audioVars, captureVars, tzOffset, storeVars, viewVars, edits>>

\* what the caller of fetchData does when fetchData ends: handleSendMessage
\* calls calculateSummary, the other callers nothing; `caught` are the calls
\* whose exception fetchData caught
AfterFetch(owner, rest, caught) ==
    IF owner = 0
    THEN /\ timers' = rest
         /\ UNCHANGED turns
    ELSE /\ timers' = Append(rest, [kind |-> "summary", owner |-> owner])
         /\ turns' = [turns EXCEPT ![owner].pc = "summary",
                                   ![owner].thrown = @ \cup caught]

\* fetchData: getTransactions() resolves with the stored collection
FetchTransactions ==
    /\ Len(timers) >= 2 /\ Head(timers).kind = "fetchTx"
    /\ timers' = << [f \in DOMAIN timers[2] \cup {"txs"} |->
                        IF f = "txs" THEN lsTransactions ELSE timers[2][f]] >>
                  \o Tail(Tail(timers))
    /\ UNCHANGED <<audioVars, captureVars, tzOffset, storeVars, viewVars, chatVars, nextId, edits>>

\* fetchData: calculateSummary() resolves, Promise.all resolves, the four
\* states are set and `finally` clears isLoading
FetchCommit ==
    /\ timers # <<>> /\ Head(timers).kind = "fetchSum"
    /\ "txs" \in DOMAIN Head(timers)
    /\ transactions' = Head(timers).txs
    /\ budgets' = Head(timers).bgs
    /\ goals' = Head(timers).gls
    /\ summary' = calculateSummary(lsTransactions, tzOffset)
    /\ isLoading' = FALSE
    /\ AfterFetch(Head(timers).owner, Tail(timers), {})
    /\ UNCHANGED <<audioVars, captureVars, tzOffset, storeVars, messages, isProcessing, nextId, edits>>

\* fetchData: a read of the store throws; catch logs it, nothing is set
FetchFails ==
    /\ timers # <<>> /\ Head(timers).kind \in {"fetchTx", "fetchSum"}
    /\ isLoading' = FALSE
    /\ IF Head(timers).kind = "fetchTx"
       THEN AfterFetch(Head(timers).owner,
                       << [kind |-> "settled"] >> \o Tail(Tail(timers)), {"fetch"})
       ELSE AfterFetch(Head(timers).owner, Tail(timers), {"fetch"})
    /\ UNCHANGED <<audioVars, captureVars, tzOffset, storeVars, transactions, budgets, goals, summary,
                   messages, isProcessing, nextId, edits>>

\* the timer of a calculateSummary whose fetchData already ended
SettledTimer ==
    /\ timers # <<>> /\ Head(timers).kind = "settled"
    /\ timers' = Tail(timers)
    /\ UNCHANGED <<audioVars, captureVars, tzOffset, storeVars, viewVars, chatVars, nextId, edits>>

\* a slip: the budget status is built from the summary the view holds
SummaryReturnsStale(t) ==
    /\ timers # <<>> /\ Head(timers) = [kind |-> "summary", owner |-> t]
    /\ LET status == BudgetStatus(turns[t].budgets, turns[t].parsed, summary)
       IN  turns' = [turns EXCEPT ![t] =
                        [f \in DOMAIN turns[t] \cup {"budgetStatus"} |->
                            IF f = "budgetStatus" THEN status
                            ELSE IF f = "pc" THEN "advice" ELSE turns[t][f]]]
    /\ timers' = Tail(timers)
    /\ UNCHANGED <<audioVars, captureVars, tzOffset, storeVars, viewVars, messages, isProcessing, nextId, edits>>

\* handleSendMessage: calculateSummary resolves, the budget status is built
\* from the `budgets` of the render that made the handler, and
\* generateFinancialAdvice is called
SummaryReturns(t) ==
    /\ timers # <<>> /\ Head(timers) = [kind |-> "summary", owner |-> t]
    /\ LET updatedSummary == calculateSummary(lsTransactions, tzOffset)
           status == BudgetStatus(turns[t].budgets, turns[t].parsed, updatedSummary)
       IN  turns' = [turns EXCEPT ![t] =
                        [f \in DOMAIN turns[t] \cup {"budgetStatus"} |->
                            IF f = "budgetStatus" THEN status
                            ELSE IF f = "pc" THEN "advice" ELSE turns[t][f]]]
    /\ timers' = Tail(timers)
    /\ UNCHANGED <<audioVars, captureVars, tzOffset, storeVars, viewVars, messages, isProcessing, nextId, edits>>

\* handleSendMessage: calculateSummary rejects
SummaryThrows(t) ==
    /\ timers # <<>> /\ Head(timers) = [kind |-> "summary", owner |-> t]
    /\ Apology(t, "summary")
    /\ timers' = Tail(timers)
    /\ UNCHANGED <<audioVars, captureVars, tzOffset, storeVars, viewVars, edits>>

\* generateFinancialAdvice: the text, or a fallback when there is none or
\* the call failed
AdviceOutcomes == {"text", "empty", "throws"}

generateFinancialAdvice(outcome) ==
    CASE outcome = "text" -> "advice"
      [] outcome = "empty" -> "Transação registrada com sucesso."
      [] outcome = "throws" -> "Transação registrada."

\* a slip: the reply is tagged with its own id
AdviceMessageSelfTagged(id, content, tx) ==
    [id |-> id, role |-> "assistant", content |-> content,
     relatedTransactionId |-> id]

\* the reply of a turn that saved a transaction
AdviceMessage(id, content, tx) ==
    [id |-> id, role |-> "assistant", content |-> content,
     relatedTransactionId |-> tx.id]

\* the turn with the outcome of its advice call recorded
Advised(turn, outcome) ==
    [f \in DOMAIN turn \cup {"advice"} |->
        IF f = "advice" THEN outcome
        ELSE IF f = "thrown" /\ outcome = "throws" THEN turn.thrown \cup {"advice"}
        ELSE turn[f]]

\* a slip: generateFinancialAdvice lets the exception of its call through
AdviceReturnsRethrows(t, outcome) ==
    /\ turns[t].pc = "advice"
    /\ EndTurn(t, Advised(turns[t], outcome),
               IF outcome = "throws"
               THEN AssistantMessage(nextId, "apology")
               ELSE AdviceMessage(nextId, generateFinancialAdvice(outcome), turns[t].parsed))
    /\ nextId' = nextId + 1
    /\ UNCHANGED <<audioVars, captureVars, tzOffset, storeVars, viewVars, timers, edits>>

\* handleSendMessage: the advice is appended
AdviceReturns(t, outcome) ==
    /\ turns[t].pc = "advice"
    /\ EndTurn(t, Advised(turns[t], outcome),
               AdviceMessage(nextId, generateFinancialAdvice(outcome), turns[t].parsed))
    /\ nextId' = nextId + 1
    /\ UNCHANGED <<audioVars, captureVars, tzOffset, storeVars, viewVars, timers, edits>>

\* what the edit form of a transaction may change: the amount (parseFloat
\* of the field) and the category (the text of the field)
EditInputs ==
    { [amount |-> 0], [category |-> ""], [amount |-> 40, category |-> "Lazer"] }

Edited(tx, edit) ==
    [f \in DOMAIN tx |-> IF f \in DOMAIN edit THEN edit[f] ELSE tx[f]]

\* Dashboard.saveTransaction and App.handleUpdateTransaction up to the
\* timer of updateTransaction (an id is a non-empty string, always truthy)
SaveTransaction(i, edit) ==
    /\ ~isLoading /\ edits < MaxEdits
    /\ i \in 1..Len(transactions)
    /\ timers' = Append(timers, [kind |-> "update", tx |-> Edited(transactions[i], edit)])
    /\ edits' = edits + 1
    /\ UNCHANGED <<audioVars, captureVars, tzOffset, storeVars, viewVars, chatVars, nextId>>

\* Dashboard.deleteTransaction and App.handleDeleteTransaction up to the timer
DeleteTransaction(i) ==
    /\ ~isLoading /\ edits < MaxEdits
    /\ i \in 1..Len(transactions)
    /\ timers' = Append(timers, [kind |-> "delete", id |-> transactions[i].id])
    /\ edits' = edits + 1
    /\ UNCHANGED <<audioVars, captureVars, tzOffset, storeVars, viewVars, chatVars, nextId>>

\* transactions[index] = updatedTransaction, when the id is found
Replaced(txs, tx) ==
    [i \in 1..Len(txs) |-> IF txs[i].id = tx.id THEN tx ELSE txs[i]]

\* transactions.filter(t => t.id !== id)
RECURSIVE Filtered(_, _)
Filtered(txs, id) ==
    IF txs = <<>> THEN <<>>
    ELSE IF Head(txs).id = id THEN Filtered(Tail(txs), id)
    ELSE <<Head(txs)>> \o Filtered(Tail(txs), id)

\* a slip: the collection is the one on display when the request was made,
\* not the one read after the wait
StoreRequestDoneFromView ==
    /\ timers # <<>> /\ Head(timers).kind \in {"update", "delete"}
    /\ lsTransactions' =
          IF Head(timers).kind = "update"
          THEN Replaced(transactions, Head(timers).tx)
          ELSE Filtered(transactions, Head(timers).id)
    /\ timers' = Tail(timers) \o FetchTimers(0, lsBudgets, lsGoals)
    /\ UNCHANGED <<audioVars, captureVars, tzOffset, otherStoreVars, viewVars, chatVars, nextId, edits>>

\* updateTransaction / deleteTransaction after getTransactions, then the
\* fetchData() of the handler
StoreRequestDone ==
    /\ timers # <<>> /\ Head(timers).kind \in {"update", "delete"}
    /\ lsTransactions' =
          IF Head(timers).kind = "update"
          THEN Replaced(lsTransactions, Head(timers).tx)
          ELSE Filtered(lsTransactions, Head(timers).id)
    /\ timers' = Tail(timers) \o FetchTimers(0, lsBudgets, lsGoals)
    /\ UNCHANGED <<audioVars, captureVars, tzOffset, otherStoreVars, viewVars, chatVars, nextId, edits>>

\* the request rejects (localStorage refuses): the handler ends there
StoreRequestFails ==
    /\ timers # <<>> /\ Head(timers).kind \in {"update", "delete"}
    /\ timers' = Tail(timers)
    /\ UNCHANGED <<audioVars, captureVars, tzOffset, storeVars, viewVars, chatVars, nextId, edits>>

\* App.handleResetData: resetData(), the transcript replaced, fetchData()
HandleResetData ==
    /\ ~isLoading /\ edits < MaxEdits
    /\ lsTransactions' = <<>>
    /\ lsBudgets' = <<>>
    /\ lsGoals' = <<>>
    /\ lsKeys' = StorageKeys
    /\ messages' = << AssistantMessage(nextId, "reset") >>
    /\ nextId' = nextId + 1
    /\ timers' = timers \o FetchTimers(0, <<>>, <<>>)
    /\ edits' = edits + 1
    /\ UNCHANGED <<audioVars, captureVars, tzOffset, viewVars, isProcessing, turns>>

Next ==
    \/ \E t \in Turns : HandleSendMessage(t)
    \/ \E t \in Turns, response \in ParseResponses : ParseReturns(t, response)
    \/ \E t \in Turns : AddTransactionDone(t)
    \/ \E t \in Turns : AddTransactionThrows(t)
    \/ FetchTransactions
    \/ FetchCommit
    \/ FetchFails
    \/ SettledTimer
    \/ \E t \in Turns : SummaryReturns(t)
    \/ \E t \in Turns : SummaryThrows(t)
    \/ \E t \in Turns, outcome \in AdviceOutcomes : AdviceReturns(t, outcome)
    \/ \E i \in 1..(MaxTurns + 1), edit \in EditInputs : SaveTransaction(i, edit)
    \/ \E i \in 1..(MaxTurns + 1) : DeleteTransaction(i)
    \/ StoreRequestDone
    \/ StoreRequestFails
    \/ HandleResetData

Spec == Init /\ [][Next]_vars

----------------------------------------------------------------------------
(* The budget status of a turn, for every budget list up to MaxBudgets *)

BudgetCategories == {"Alimentação", "Salário"}

\* limits the budget forms let through: saveNewBudget refuses only a falsy
\* limit, saveBudget refuses none (Number("") is 0)
BudgetLimits == {100, 8, 0, 0 - 50}

SampleBudgets == [category : BudgetCategories, limit : BudgetLimits]

\* the budgets of a list, with their ids
WithIds(bgs) ==
    [i \in 1..Len(bgs) |->
        [id |-> i, category |-> bgs[i].category, limit |-> bgs[i].limit]]

\* the stored collections a turn may find
BudgetStores == {<<>>, PriorTransactions}

\* the parse results that pass the test of line 126
AcceptedRecords ==
    {parseTransaction(r, 2) : r \in {q \in ParseResponses : Accepted(parseTransaction(q, 2))}}

\* a turn that saved its transaction and refreshed the dashboard, about to
\* get the summary it builds the budget status from
InitBudget ==
    /\ CaptureIdle
    /\ lsGoals = <<>>
    /\ lsKeys = StorageKeys
    /\ goals = <<>>
    /\ tzOffset = BrasiliaOffset
    /\ \E bgs \in SeqsUpTo(SampleBudgets, MaxBudgets), prior \in BudgetStores,
          parsed \in AcceptedRecords :
          /\ lsBudgets = WithIds(bgs)
          /\ lsTransactions = Append(prior, parsed)
          /\ turns = [t \in Turns |->
                         IF t = 1
                         THEN [pc |-> "summary", userMsg |-> 1, budgets |-> WithIds(bgs),
                               persisted |-> <<parsed.id>>, replies |-> <<>>,
                               thrown |-> {}, parsed |-> parsed]
                         ELSE IdleTurn]
    /\ transactions = lsTransactions
    /\ budgets = lsBudgets
    /\ summary = calculateSummary(lsTransactions, tzOffset)
    /\ isLoading = FALSE
    /\ messages = << [id |-> 0, role |-> "assistant", content |-> "welcome"],
                     [id |-> 1, role |-> "user", content |-> "text"] >>
    /\ isProcessing = TRUE
    /\ timers = << [kind |-> "summary", owner |-> 1] >>
    /\ nextId = 3
    /\ edits = 0
    /\ playingId = NoId
    /\ isPaused = FALSE
    /\ audioCtx = "none"
    /\ sourceNodeRef = 0
    /\ sources = <<>>
    /\ synthCalls = <<>>
    /\ ctxOps = <<>>

NextBudget ==
    \/ \E t \in Turns : SummaryReturns(t)
    \/ \E t \in Turns, outcome \in AdviceOutcomes : AdviceReturns(t, outcome)

SpecBudget == InitBudget /\ [][NextBudget]_vars

----------------------------------------------------------------------------
(* ChatInterface: playback *)

\* a transcript with two assistant messages: the welcome and a clarification
AudioTranscript ==
    << [id |-> 0, role |-> "assistant", content |-> "welcome"],
       [id |-> 1, role |-> "user", content |-> "text"],
       [id |-> 2, role |-> "assistant", content |-> "clarification"] >>

InitAudio ==
    /\ CaptureIdle
    /\ lsGoals = <<>>
    /\ lsKeys = StorageKeys
    /\ goals = <<>>
    /\ tzOffset = BrasiliaOffset
    /\ lsTransactions = <<>>
    /\ lsBudgets = <<>>
    /\ transactions = <<>>
    /\ budgets = <<>>
    /\ summary = InitialSummary
    /\ isLoading = FALSE
    /\ messages = AudioTranscript
    /\ isProcessing = FALSE
    /\ turns = [t \in Turns |-> IdleTurn]
    /\ timers = <<>>
    /\ nextId = 3
    /\ edits = 0
    /\ playingId = NoId
    /\ isPaused = FALSE
    /\ audioCtx = "none"
    /\ sourceNodeRef = 0
    /\ sources = <<>>
    /\ synthCalls = <<>>
    /\ ctxOps = <<>>

\* the messages that show a play button
Playable == {messages[i].id : i \in {j \in 1..Len(messages) : messages[j].role = "assistant"}}

\* source.stop() and source.disconnect() on the referenced node: a node
\* that plays stops, and its `ended` event is then due
StoppedSources ==
    IF sourceNodeRef = 0 THEN sources
    ELSE [sources EXCEPT ![sourceNodeRef] =
             IF @.state = "playing"
             THEN [@ EXCEPT !.state = "stopped", !.endedDue = TRUE]
             ELSE @]

\* stopAudio, but for its setPlayingId(null)
StopAudioEffects ==
    /\ sources' = StoppedSources
    /\ sourceNodeRef' = 0
    /\ isPaused' = FALSE

\* the stop button, shown on the message that playingId names
StopAudio ==
    /\ playingId \in Playable
    /\ StopAudioEffects
    /\ playingId' = NoId
    /\ UNCHANGED <<appVars, captureVars, audioCtx, synthCalls, ctxOps>>

\* playAudio on the message that playingId names: resumeAudio when paused,
\* pauseAudio otherwise, each up to its await
ToggleAudio(msgId) ==
    /\ msgId \in Playable /\ playingId = msgId
    /\ Len(ctxOps) < MaxCtxOps
    /\ IF audioCtx # "none"
       THEN ctxOps' = Append(ctxOps, IF isPaused
                                     THEN [op |-> "resume", then |-> "setIsPaused(false)"]
                                     ELSE [op |-> "suspend", then |-> "setIsPaused(true)"])
       ELSE UNCHANGED ctxOps
    /\ UNCHANGED <<appVars, captureVars, playingId, isPaused, audioCtx, sourceNodeRef, sources, synthCalls>>

\* the source nodes made and those the pending calls may still make
SourcesInSight ==
    Len(sources) + Len(synthCalls)
    + Cardinality({i \in 1..Len(ctxOps) : ctxOps[i].then = "start"})

\* playAudio on another message, up to the await of generateSpeech
PlayAudio(msgId) ==
    /\ msgId \in Playable /\ playingId # msgId
    /\ SourcesInSight < MaxSources
    /\ StopAudioEffects
    /\ playingId' = msgId
    /\ synthCalls' = Append(synthCalls, msgId)
    /\ UNCHANGED <<appVars, captureVars, audioCtx, ctxOps>>

\* createBufferSource ... source.start(0); sourceNodeRef.current = source
StartSource(msgId) ==
    /\ sources' = Append(sources, [msg |-> msgId, state |-> "playing", endedDue |-> FALSE])
    /\ sourceNodeRef' = Len(sources) + 1

RemoveAt(seq, i) == [j \in 1..(Len(seq) - 1) |-> IF j < i THEN seq[j] ELSE seq[j + 1]]

\* generateSpeech resolves with a buffer: the context is made if there is
\* none, resumed if it is suspended, and the source is started
SynthReturnsBuffer(i) ==
    /\ i \in 1..Len(synthCalls)
    /\ synthCalls' = RemoveAt(synthCalls, i)
    /\ IF audioCtx = "suspended"
       THEN /\ ctxOps' = Append(ctxOps, [op |-> "resume", then |-> "start", msg |-> synthCalls[i]])
            /\ UNCHANGED <<audioCtx, sources, sourceNodeRef>>
       ELSE /\ audioCtx' = "running"
            /\ StartSource(synthCalls[i])
            /\ UNCHANGED ctxOps
    /\ UNCHANGED <<appVars, captureVars, playingId, isPaused>>

\* a slip: the failure of the synthesis leaves playAudio before it clears
\* playingId
SynthReturnsNullEscapes(i) ==
    /\ i \in 1..Len(synthCalls)
    /\ synthCalls' = RemoveAt(synthCalls, i)
    /\ UNCHANGED <<appVars, captureVars, playingId, isPaused, audioCtx, sourceNodeRef, sources,
                   ctxOps>>

\* generateSpeech resolves with null (no audio, or its own catch)
SynthReturnsNull(i) ==
    /\ i \in 1..Len(synthCalls)
    /\ synthCalls' = RemoveAt(synthCalls, i)
    /\ playingId' = NoId
    /\ UNCHANGED <<appVars, captureVars, isPaused, audioCtx, sourceNodeRef, sources, ctxOps>>

\* the oldest suspend() or resume() settles and the code after its await runs
CtxOpSettles ==
    /\ ctxOps # <<>>
    /\ ctxOps' = Tail(ctxOps)
    /\ audioCtx' = IF Head(ctxOps).op = "suspend" THEN "suspended" ELSE "running"
    /\ IF Head(ctxOps).then = "start"
       THEN /\ StartSource(Head(ctxOps).msg)
            /\ UNCHANGED isPaused
       ELSE /\ isPaused' = (Head(ctxOps).then = "setIsPaused(true)")
            /\ UNCHANGED <<sources, sourceNodeRef>>
    /\ UNCHANGED <<appVars, captureVars, playingId, synthCalls>>

\* source.onended
OnEnded ==
    /\ playingId' = NoId
    /\ isPaused' = FALSE
    /\ sourceNodeRef' = 0

\* a playing source reaches the end of its buffer (the clock must run)
AudioEnds(n) ==
    /\ n \in 1..Len(sources)
    /\ audioCtx = "running" /\ sources[n].state = "playing"
    /\ sources' = [sources EXCEPT ![n].state = "ended"]
    /\ OnEnded
    /\ UNCHANGED <<appVars, captureVars, audioCtx, synthCalls, ctxOps>>

\* the `ended` event of a source that stop() stopped (the event is raised
\* by the rendering of the context, which must run)
StoppedSourceEnds(n) ==
    /\ n \in 1..Len(sources)
    /\ audioCtx = "running" /\ sources[n].endedDue
    /\ sources' = [sources EXCEPT ![n].endedDue = FALSE]
    /\ OnEnded
    /\ UNCHANGED <<appVars, captureVars, audioCtx, synthCalls, ctxOps>>

NextAudio ==
    \/ \E msgId \in Playable : PlayAudio(msgId)
    \/ \E msgId \in Playable : ToggleAudio(msgId)
    \/ StopAudio
    \/ \E i \in 1..MaxSources : SynthReturnsBuffer(i)
    \/ \E i \in 1..MaxSources : SynthReturnsNull(i)
    \/ CtxOpSettles
    \/ \E n \in 1..MaxSources : AudioEnds(n)
    \/ \E n \in 1..MaxSources : StoppedSourceEnds(n)

SpecAudio == InitAudio /\ [][NextAudio]_vars

----------------------------------------------------------------------------
(* Properties of the aggregation *)

RECURSIVE SumValues(_)
SumValues(map) ==
    IF map = <<>> THEN 0 ELSE Head(map).value + SumValues(Tail(map))

\* the sum of the amounts of the records of kind `kind`
RECURSIVE SumOfKind(_, _)
SumOfKind(txs, kind) ==
    IF txs = <<>> THEN 0
    ELSE (IF Head(txs).type = kind THEN Head(txs).amount ELSE 0)
         + SumOfKind(Tail(txs), kind)

\* the sum of the EXPENSE amounts of category `cat`
RECURSIVE ExpenseOfCategory(_, _)
ExpenseOfCategory(txs, cat) ==
    IF txs = <<>> THEN 0
    ELSE (IF Head(txs).type = EXPENSE /\ Head(txs).category = cat
          THEN Head(txs).amount ELSE 0)
         + ExpenseOfCategory(Tail(txs), cat)

ExpenseRecords(txs) == {i \in 1..Len(txs) : txs[i].type = EXPENSE}

\* C7: for every transaction collection the values of expensesByCategory sum
\* to totalExpense, and balance is totalIncome - totalExpense.
C7_SummaryTotalsAgree ==
    ~isLoading =>
        /\ SumValues(summary.expensesByCategory) = summary.totalExpense
        /\ summary.balance = summary.totalIncome - summary.totalExpense

\* an income and two expenses of one category were aggregated
C7_Witness ==
    /\ ~isLoading
    /\ summary.totalIncome > 0
    /\ \E i \in 1..Len(summary.expensesByCategory) :
           summary.expensesByCategory[i].value > 40

\* C8: totalIncome is the sum of the amounts of exactly the INCOME records
\* and totalExpense the sum of exactly the EXPENSE records; a record of
\* neither kind contributes to neither total.
C8_TotalsByKind ==
    ~isLoading =>
        /\ summary.totalIncome = SumOfKind(lsTransactions, INCOME)
        /\ summary.totalExpense = SumOfKind(lsTransactions, EXPENSE)

\* C9: expensesByCategory has exactly one entry per distinct category string
\* with at least one EXPENSE transaction, its value the sum of the EXPENSE
\* amounts of that category; INCOME transactions create or change no entry.
C9_CategoriesOfExpenses ==
    ~isLoading =>
        LET byCat == summary.expensesByCategory
        IN  /\ \A i, j \in 1..Len(byCat) : byCat[i].name = byCat[j].name => i = j
            /\ MapKeys(byCat) =
                  {lsTransactions[i].category : i \in ExpenseRecords(lsTransactions)}
            /\ \A i \in 1..Len(byCat) :
                  byCat[i].value = ExpenseOfCategory(lsTransactions, byCat[i].name)

\* C10: dailyExpenses is strictly ascending by its raw day key and has no
\* entry for a day on which no EXPENSE transaction occurred.
C10_DailyAscendingNoEmptyDay ==
    ~isLoading =>
        LET daily == summary.dailyExpenses
        IN  /\ \A i \in 1..(Len(daily) - 1) :
                  daily[i].originalDate < daily[i + 1].originalDate
            /\ \A i \in 1..Len(daily) :
                  \E k \in ExpenseRecords(lsTransactions) :
                      IsoDayKey(lsTransactions[k].date) = daily[i].originalDate

\* the local calendar day of a timestamp, as the number YYYYMMDD
LocalDayKey(date, tz) == IsoDayKey(date + tz)

\* the sum of the EXPENSE amounts of the local calendar day `key`
RECURSIVE ExpenseOfLocalDay(_, _, _)
ExpenseOfLocalDay(txs, key, tz) ==
    IF txs = <<>> THEN 0
    ELSE (IF Head(txs).type = EXPENSE /\ LocalDayKey(Head(txs).date, tz) = key
          THEN Head(txs).amount ELSE 0)
         + ExpenseOfLocalDay(Tail(txs), key, tz)

\* every record is an income or an expense
KindsOfEnum(txs) == \A i \in 1..Len(txs) : txs[i].type \in {EXPENSE, INCOME}

\* C11: each EXPENSE transaction is counted in the dailyExpenses entry of the
\* local calendar day of its timestamp, whatever the time of day and the
\* offset of local time from UTC: for a collection of incomes and expenses,
\* every expense has the entry of its local day, and that entry holds the sum
\* of the expenses of that local day.
C11_DailyByLocalDay ==
    (~isLoading /\ KindsOfEnum(lsTransactions)) =>
        \A k \in ExpenseRecords(lsTransactions) :
            LET key == LocalDayKey(lsTransactions[k].date, tzOffset)
                daily == summary.dailyExpenses
            IN  \E i \in 1..Len(daily) :
                    /\ daily[i].originalDate = key
                    /\ daily[i].amount = ExpenseOfLocalDay(lsTransactions, key, tzOffset)

\* C12: for the empty transaction collection calculateSummary returns zero
\* totals, a zero balance and empty expensesByCategory, dailyExpenses and
\* monthlyCashflow.
C12_EmptyCollectionEmptySummary ==
    (~isLoading /\ lsTransactions = <<>>) =>
        /\ summary.totalIncome = 0 /\ summary.totalExpense = 0
        /\ summary.balance = 0
        /\ summary.expensesByCategory = <<>>
        /\ summary.dailyExpenses = <<>>
        /\ summary.monthlyCashflow = <<>>

\* the summary of the empty collection was computed
C12_Witness == ~isLoading /\ lsTransactions = <<>> /\ summary.balance = 0

RECURSIVE SumField(_, _)
SumField(map, f) ==
    IF map = <<>> THEN 0 ELSE Head(map)[f] + SumField(Tail(map), f)

\* the sum of the amounts of the records of local month `month` that are
\* (income = TRUE) or are not (income = FALSE) of kind INCOME
RECURSIVE AmountOfMonth(_, _, _, _)
AmountOfMonth(txs, month, tz, income) ==
    IF txs = <<>> THEN 0
    ELSE (IF LocalMonthKey(Head(txs).date, tz) = month
             /\ (Head(txs).type = INCOME) = income
          THEN Head(txs).amount ELSE 0)
         + AmountOfMonth(Tail(txs), month, tz, income)

\* C13: monthlyCashflow has exactly one bucket per month name occurring in
\* the collection, whatever the year; a bucket's income is the sum of the
\* incomes of that month name and its expense the sum of the other records
\* of that month name; the bucket incomes sum to totalIncome and the bucket
\* expenses to totalExpense.
C13_MonthlyBuckets ==
    ~isLoading =>
        LET monthly == summary.monthlyCashflow
        IN  /\ \A i, j \in 1..Len(monthly) : monthly[i].name = monthly[j].name => i = j
            /\ MapKeys(monthly) =
                  {LocalMonthKey(lsTransactions[k].date, tzOffset) :
                       k \in 1..Len(lsTransactions)}
            /\ \A i \in 1..Len(monthly) :
                  /\ monthly[i].income =
                        AmountOfMonth(lsTransactions, monthly[i].name, tzOffset, TRUE)
                  /\ monthly[i].expense =
                        AmountOfMonth(lsTransactions, monthly[i].name, tzOffset, FALSE)
            /\ SumField(monthly, "income") = summary.totalIncome
            /\ SumField(monthly, "expense") = summary.totalExpense

\* January 2024 and January 2025 share a bucket that holds an income and an
\* expense, and February has its own
C13_Witness ==
    /\ ~isLoading
    /\ Len(summary.monthlyCashflow) = 2
    /\ \E i, j \in 1..Len(lsTransactions) :
          /\ LocalMonthKey(lsTransactions[i].date, tzOffset)
                = LocalMonthKey(lsTransactions[j].date, tzOffset)
          /\ IsoDayKey(lsTransactions[i].date) \div 10000
                # IsoDayKey(lsTransactions[j].date) \div 10000
          /\ lsTransactions[i].type = INCOME /\ lsTransactions[j].type = EXPENSE

----------------------------------------------------------------------------
(* Properties of the chat turn *)

RequiredFields == {"type", "amount", "category", "description", "date"}

\* the parse result lacks a required field
Incomplete(parsed) ==
    parsed # Null /\ \E f \in RequiredFields : f \notin DOMAIN parsed

\* the parse failed: null, or an incomplete record
ParseFailed(parsed) == parsed = Null \/ Incomplete(parsed)

\* the parse succeeded: a complete record that is a valid candidate
ParseSucceeded(parsed) ==
    /\ parsed # Null
    /\ RequiredFields \subseteq DOMAIN parsed
    /\ parsed.amount > 0 /\ parsed.category # ""
    /\ parsed.type \in {EXPENSE, INCOME}

Parsed(t) == turns[t].pc \notin {"idle", "parse"}

Done(t) == turns[t].pc = "done"

Clarified(t) ==
    /\ Len(turns[t].replies) = 1
    /\ turns[t].replies[1].content = "clarification"

FallbackTexts == {"Transação registrada com sucesso.", "Transação registrada."}

\* C2: a turn whose parse fails (null or an incomplete record) leaves the
\* transaction collection as it was and appends exactly one clarification.
C2_FailedParsePersistsNothing ==
    \A t \in Turns :
        (Parsed(t) /\ ParseFailed(turns[t].parsed)) =>
            /\ turns[t].persisted = <<>>
            /\ turns[t].parsed # Null =>
                  \A i \in 1..Len(lsTransactions) :
                      lsTransactions[i].id # turns[t].parsed.id
            /\ Done(t) => Clarified(t)

\* C3: every turn whose calls all return or throw ends with exactly one
\* assistant message, appended after its user message: the clarification,
\* the advice or its fallback, or the apology.
C3_ExactlyOneReply ==
    \A t \in Turns :
        /\ (turns[t].pc \notin {"idle", "done"}) => turns[t].replies = <<>>
        /\ Done(t) =>
             /\ Len(turns[t].replies) = 1
             /\ turns[t].replies[1].role = "assistant"
             /\ turns[t].replies[1].content \in
                   {"clarification", "advice", "apology"} \cup FallbackTexts
             /\ \A i \in 1..Len(messages) :
                   messages[i].id = turns[t].userMsg =>
                       \E j \in (i + 1)..Len(messages) :
                           messages[j] = turns[t].replies[1]

\* a turn saved its transaction, then calculateSummary threw
C3_Witness ==
    \E t \in Turns :
        /\ Done(t)
        /\ turns[t].persisted # <<>>
        /\ turns[t].replies[1].content = "apology"
        /\ \E i \in 1..Len(messages) : messages[i].id = turns[t].userMsg

C5_PersistedAmountPositive ==
    \A i \in 1..Len(lsTransactions) :
        lsTransactions[i].amount > 0 /\ lsTransactions[i].category # ""

\* C6: a parse result missing any one of kind, amount, category,
\* description or date is treated as a failure: nothing is persisted and
\* the clarification is appended.
C6_MissingFieldIsFailure ==
    \A t \in Turns :
        (Parsed(t) /\ Incomplete(turns[t].parsed)) =>
            (Done(t) /\ turns[t].persisted = <<>> /\ Clarified(t))

\* the step ends turn t
Ends(t) == turns[t].pc \notin {"idle", "done"} /\ turns'[t].pc = "done"

\* the step appends the one reply of turn t, of content `content`, to the
\* transcript and clears the processing flag
Replies(t, content) ==
    /\ Len(turns'[t].replies) = 1
    /\ turns'[t].replies[1].role = "assistant"
    /\ turns'[t].replies[1].content = content
    /\ messages' = Append(messages, turns'[t].replies[1])
    /\ isProcessing' = FALSE

\* C17: when the advice call fails or returns no text after the transaction
\* was persisted, the turn ends with the fixed fallback confirmation as its
\* one assistant message, tagged with the id of the transaction; the step
\* leaves the stored collection as it is, and no apology is appended.
C17_AdviceFallback ==
    [][\A t \in Turns :
          (turns[t].pc = "advice" /\ Ends(t) /\ turns'[t].advice \in {"empty", "throws"}) =>
              /\ Replies(t, IF turns'[t].advice = "throws"
                            THEN "Transação registrada."
                            ELSE "Transação registrada com sucesso.")
              /\ "relatedTransactionId" \in DOMAIN turns'[t].replies[1]
              /\ turns'[t].replies[1].relatedTransactionId = turns[t].parsed.id
              /\ turns'[t].persisted = <<turns[t].parsed.id>>
              /\ lsTransactions' = lsTransactions
      ]_vars

\* the advice call failed: the fallback is in the transcript, tagged, and
\* the transaction is in the store
C17_Witness ==
    \E t \in Turns :
        /\ Done(t)
        /\ "advice" \in turns[t].thrown
        /\ turns[t].replies[1].content = "Transação registrada."
        /\ \E i \in 1..Len(messages) :
              /\ messages[i] = turns[t].replies[1]
              /\ \E k \in 1..Len(lsTransactions) :
                    lsTransactions[k].id = messages[i].relatedTransactionId

\* C18 as claimed: a finished turn in which an external call threw has
\* exactly one reply, the apology; it persisted nothing if the exception
\* came before or during persistence.
C18_EveryThrowApologises ==
    \A t \in Turns :
        (Done(t) /\ turns[t].thrown # {}) =>
            /\ Len(turns[t].replies) = 1
            /\ turns[t].replies[1].content = "apology"
            /\ (turns[t].thrown \cap {"parse", "add"} # {}) => turns[t].persisted = <<>>

\* C18, amended: the exception of addTransaction or of calculateSummary (the
\* calls that reach the catch of handleSendMessage) ends the turn with exactly
\* one apology and the processing flag cleared, and the step leaves the store
\* as it is: nothing of the turn is stored when addTransaction threw, and the
\* record stored before stays when calculateSummary threw.  The exception of
\* the parse call ends the turn with the clarification and nothing stored,
\* that of the advice call with the tagged fallback, and a failed refresh
\* lets the turn go on to calculateSummary.
C18_CaughtAtTurnBoundary ==
    [][\A t \in Turns :
          LET new == IF turns[t].pc = "idle" THEN {}
                     ELSE turns'[t].thrown \ turns[t].thrown
          IN  /\ "add" \in new =>
                    /\ turns[t].pc = "add" /\ Ends(t) /\ Replies(t, "apology")
                    /\ turns'[t].persisted = <<>>
                    /\ lsTransactions' = lsTransactions
                    /\ \A k \in 1..Len(lsTransactions) :
                          lsTransactions[k].id # turns[t].parsed.id
              /\ "summary" \in new =>
                    /\ turns[t].pc = "summary" /\ Ends(t) /\ Replies(t, "apology")
                    /\ turns'[t].persisted = <<turns[t].parsed.id>>
                    /\ lsTransactions' = lsTransactions
              /\ "parse" \in new =>
                    /\ Ends(t) /\ Replies(t, "clarification")
                    /\ turns'[t].persisted = <<>>
                    /\ lsTransactions' = lsTransactions
              /\ "advice" \in new =>
                    /\ Ends(t) /\ Replies(t, "Transação registrada.")
                    /\ "relatedTransactionId" \in DOMAIN turns'[t].replies[1]
                    /\ lsTransactions' = lsTransactions
              /\ "fetch" \in new =>
                    /\ turns'[t].pc = "summary" /\ turns'[t].replies = <<>>
                    /\ messages' = messages /\ lsTransactions' = lsTransactions
              /\ (Ends(t) /\ turns'[t].replies[1].content = "apology") =>
                    new \cap {"add", "summary"} # {}
      ]_vars

\* calculateSummary threw after the record was stored: the apology is the
\* reply, the flag is cleared and the record is still in the store
C18_Witness ==
    \E t \in Turns :
        /\ Done(t) /\ ~isProcessing
        /\ "summary" \in turns[t].thrown
        /\ turns[t].replies[1].content = "apology"
        /\ \E k \in 1..Len(lsTransactions) : lsTransactions[k].id = turns[t].parsed.id

----------------------------------------------------------------------------
(* Properties of the budget status *)

\* the turn has built its budget status
HasStatus(t) == "budgetStatus" \in DOMAIN turns[t]

\* the budget the status of turn t was built from (the turn matched one)
MatchedBudget(t) ==
    turns[t].budgets[FindBudget(turns[t].budgets, turns[t].parsed.category)]

\* p is n / d rounded to the nearest integer, a half rounded upwards
IsRounded(p, n, d) ==
    IF d > 0
    THEN 2 * d * p <= 2 * n + d /\ 2 * n + d < 2 * d * (p + 1)
    ELSE 2 * d * p >= 2 * n + d /\ 2 * n + d > 2 * d * (p + 1)

\* C14: for an EXPENSE with a matching budget, spent is the sum of the
\* expenses of the record's category, the percentage of the status is
\* round(spent / limit x 100) (for a limit other than 0, where the quotient
\* exists) and the status is the over-budget tier if and only if
\* limit - spent < 0: spent equal to limit is within budget.
C14_PercentageAndTier ==
    \A t \in Turns :
        (HasStatus(t) /\ turns[t].budgetStatus.tier \in {"over", "within"}) =>
            LET status == turns[t].budgetStatus
                limit == MatchedBudget(t).limit
            IN  /\ status.spent = ExpenseOfCategory(lsTransactions, turns[t].parsed.category)
                /\ (status.tier = "over") <=> (limit - status.spent < 0)
                /\ limit # 0 =>
                      /\ "value" \in DOMAIN status.percentage
                      /\ IsRounded(status.percentage.value, status.spent * 100, limit)
                /\ status.tier = "over" => status.overage = status.spent - limit
                /\ status.tier = "within" =>
                      status.limit = limit /\ status.remaining = limit - status.spent

\* what was spent is exactly the limit: within budget, at 100 per cent
C14_Witness ==
    \E t \in Turns :
        /\ HasStatus(t)
        /\ turns[t].budgetStatus.tier = "within"
        /\ turns[t].budgetStatus.remaining = 0
        /\ turns[t].budgetStatus.spent = 100
        /\ turns[t].budgetStatus.percentage = [value |-> 100]

\* C15: when the matched budget has a zero or negative limit, the
\* evaluation gives a defined percentage (no division error, no undefined
\* value) and the status is the over-budget tier.
C15_NonPositiveLimitIsOver ==
    \A t \in Turns :
        (HasStatus(t) /\ turns[t].parsed.type = EXPENSE
           /\ FindBudget(turns[t].budgets, turns[t].parsed.category) # 0
           /\ MatchedBudget(t).limit <= 0) =>
            /\ turns[t].budgetStatus.tier = "over"
            /\ "value" \in DOMAIN turns[t].budgetStatus.percentage

\* the two categories are equal when case is ignored
SameIgnoringCase(a, b) ==
    \/ a = b
    \/ {a, b} \in {{"Alimentação", "alimentação"}, {"Salário", "salário"},
                   {"Lazer", "lazer"}}

\* some budget of the list has the category of the record, ignoring case
BudgetMatches(t) ==
    \E i \in 1..Len(turns[t].budgets) :
        SameIgnoringCase(turns[t].budgets[i].category, turns[t].parsed.category)

\* C16: the status is chosen by these cases: an EXPENSE with a budget whose
\* category equals the record's ignoring case gets the over-budget or the
\* within-budget text, an INCOME the income-recorded text, an EXPENSE with
\* no budget matching ignoring case the no-budget text.
C16_StatusCases ==
    \A t \in Turns :
        HasStatus(t) =>
            LET tier == turns[t].budgetStatus.tier
                kind == turns[t].parsed.type
            IN  /\ (kind = EXPENSE /\ BudgetMatches(t)) => tier \in {"over", "within"}
                /\ kind = INCOME => tier = "income"
                /\ (kind = EXPENSE /\ ~BudgetMatches(t)) => tier = "none"

\* an expense of category "alimentação" was measured against the budget of
\* "Alimentação", which is not the first of the list
C16_Witness ==
    \E t \in Turns :
        /\ HasStatus(t)
        /\ turns[t].parsed.category = "alimentação"
        /\ turns[t].budgetStatus.tier = "within"
        /\ FindBudget(turns[t].budgets, "alimentação") = 2
        /\ MatchedBudget(t).category = "Alimentação"

----------------------------------------------------------------------------
(* Properties of playback *)

\* the streams that are active: started, and neither stopped nor ended
ActiveStreams == {n \in 1..Len(sources) : sources[n].state = "playing"}

\* C1: in every reachable state at most one playback stream is active
\* (Playing or Paused), also when a play request for one message is issued
\* while the synthesis call for another is still pending.
C1_AtMostOneActiveStream == Cardinality(ActiveStreams) <= 1

\* the step is a play request for message b, which is not the one in play
Requests(b) ==
    playingId # b /\ playingId' = b /\ synthCalls' = Append(synthCalls, b)

\* message m has an active stream and the audio clock runs
Playing(m) ==
    audioCtx = "running" /\ \E n \in ActiveStreams : sources[n].msg = m

\* message m has an active stream and the audio clock is suspended
Paused(m) ==
    audioCtx = "suspended" /\ \E n \in ActiveStreams : sources[n].msg = m

\* the step is a play request for the message in play: it calls suspend()
\* or resume()
Toggles ==
    /\ Len(ctxOps') = Len(ctxOps) + 1
    /\ ctxOps'[Len(ctxOps')].then # "start"

\* the step completes the suspend() or resume() of a toggle
ToggleSettles ==
    /\ ctxOps # <<>> /\ ctxOps' = Tail(ctxOps)
    /\ Head(ctxOps).then # "start"

\* C20: a play request for the message in play toggles it: when it is
\* Playing the request suspends the clock and it becomes Paused, when it is
\* Paused the request resumes the clock and it becomes Playing; the request
\* starts no stream and no synthesis call, and changes the state of no
\* other message.
C20_ToggleActiveMessage ==
    [][/\ Toggles =>
            /\ synthCalls' = synthCalls /\ sources' = sources
            /\ playingId' = playingId
            /\ Playing(playingId) => ctxOps'[Len(ctxOps')].op = "suspend"
            /\ Paused(playingId) => ctxOps'[Len(ctxOps')].op = "resume"
       /\ ToggleSettles =>
            /\ synthCalls' = synthCalls /\ sources' = sources
            /\ audioCtx' = (IF Head(ctxOps).op = "suspend" THEN "suspended" ELSE "running")
            /\ (\E n \in ActiveStreams : sources[n].msg # playingId) =>
                  audioCtx' = audioCtx
      ]_vars

\* C19: if playback of message B is requested while another message A has
\* an active stream (Playing, or Paused with the clock suspended), A's
\* stream is stopped and released by the request, hence before B reaches
\* Playing: from the request on no stream of a message other than B is
\* active.
C19_OtherStoppedBeforePlaying ==
    [][\A b \in Playable :
          (Requests(b) /\ \E n \in ActiveStreams : sources[n].msg # b) =>
              \A n \in 1..Len(sources') :
                  sources'[n].state = "playing" => sources'[n].msg = b
      ]_vars

\* the step is the stop button: stopAudio()
Stops ==
    /\ playingId # NoId /\ playingId' = NoId
    /\ synthCalls' = synthCalls /\ ctxOps' = ctxOps
    /\ \/ sources' = sources
       \/ \E n \in 1..Len(sources) :
             sources[n].state = "playing" /\ sources'[n].state = "stopped"

\* the step is the natural end of the audio of source n
EndsNaturally(n) ==
    /\ n \in 1..Len(sources) /\ Len(sources') = Len(sources)
    /\ sources[n].state = "playing" /\ sources'[n].state = "ended"

\* C21: an explicit stop of a message that is Playing or Paused, and the
\* natural end of the audio, move playback to Idle and release the source of
\* the stream: no stream of the message stays active and the reference is
\* dropped; a released source is never started again, a later Playing is a
\* fresh source.
C21_StopAndEndRelease ==
    [][/\ (Stops /\ (Playing(playingId) \/ Paused(playingId))) =>
            /\ \A n \in 1..Len(sources') :
                  sources'[n].msg = playingId => sources'[n].state # "playing"
            /\ sourceNodeRef' = 0 /\ isPaused' = FALSE
       /\ \A n \in 1..Len(sources) :
            /\ EndsNaturally(n) =>
                  playingId' = NoId /\ sourceNodeRef' = 0 /\ isPaused' = FALSE
            /\ sources[n].state # "playing" =>
                  (Len(sources') >= n /\ sources'[n].state = sources[n].state)
      ]_vars

\* the step is the return of the synthesis call i with no audio
ReturnsNoAudio(i) ==
    /\ i \in 1..Len(synthCalls)
    /\ synthCalls' = RemoveAt(synthCalls, i)
    /\ sources' = sources /\ ctxOps' = ctxOps

\* C22: when the synthesis call of a play request yields no audio, playback
\* stays Idle: the message was not shown or treated as Playing or Paused
\* while the call was pending (playingId did not name it), no source is
\* created and no chat message is appended.
C22_NoAudioStaysIdle ==
    [][\A i \in 1..Len(synthCalls) :
          ReturnsNoAudio(i) =>
              /\ playingId # synthCalls[i]
              /\ playingId' # synthCalls[i]
              /\ Len(sources') = Len(sources)
              /\ messages' = messages
      ]_vars

\* ---------------------------------------------------------------------------
\* Voice capture: startRecording, stopRecording, the recorder's onstop, the
\* reader's onloadend and the transcription call
\* ---------------------------------------------------------------------------

\* recordings requested in one behaviour
MaxRecordings == 2

\* the record button, when it shows the microphone: startRecording up to
\* `await getUserMedia`
StartRecording ==
    /\ ~isRecording /\ ~isProcessing /\ ~isTranscribing
    /\ Len(recorders) + micCalls + alerts < MaxRecordings
    /\ micCalls' = micCalls + 1
    /\ UNCHANGED <<appVars, audioVars, input, isRecording, isTranscribing, mediaRecorderRef,
                   recorders, alerts>>

\* getUserMedia resolves: the recorder is created, referenced and started
MicGranted ==
    /\ micCalls > 0
    /\ micCalls' = micCalls - 1
    /\ recorders' = Append(recorders, [stage |-> "recording"])
    /\ mediaRecorderRef' = Len(recorders) + 1
    /\ isRecording' = TRUE
    /\ UNCHANGED <<appVars, audioVars, input, isTranscribing, alerts>>

\* a slip: the catch block of startRecording shows nothing
MicDeniedSilent ==
    /\ micCalls > 0
    /\ micCalls' = micCalls - 1
    /\ UNCHANGED <<appVars, audioVars, input, isRecording, isTranscribing, mediaRecorderRef,
                   recorders, alerts>>

\* getUserMedia rejects: the catch block logs and alerts
MicDenied ==
    /\ micCalls > 0
    /\ micCalls' = micCalls - 1
    /\ alerts' = alerts + 1
    /\ UNCHANGED <<appVars, audioVars, input, isRecording, isTranscribing, mediaRecorderRef,
                   recorders>>

\* the record button, when it shows the square: stopRecording; stop() of a
\* recorder that is not recording throws before setIsRecording(false)
StopRecording ==
    /\ isRecording /\ ~isProcessing /\ ~isTranscribing
    /\ mediaRecorderRef # 0
    /\ IF recorders[mediaRecorderRef].stage = "recording"
       THEN /\ recorders' = [recorders EXCEPT ![mediaRecorderRef].stage = "stopping"]
            /\ isRecording' = FALSE
       ELSE UNCHANGED <<recorders, isRecording>>
    /\ UNCHANGED <<appVars, audioVars, input, isTranscribing, mediaRecorderRef, micCalls,
                   alerts>>

\* mediaRecorder.onstop: the clip is handed to the FileReader and the
\* stream's tracks are stopped
OnStop(n) ==
    /\ n \in 1..Len(recorders)
    /\ recorders[n].stage = "stopping"
    /\ recorders' = [recorders EXCEPT ![n].stage = "reading"]
    /\ UNCHANGED <<appVars, audioVars, input, isRecording, isTranscribing, mediaRecorderRef,
                   micCalls, alerts>>

\* reader.onloadend up to `await transcribeAudio`
OnLoadEnd(n) ==
    /\ n \in 1..Len(recorders)
    /\ recorders[n].stage = "reading"
    /\ recorders' = [recorders EXCEPT ![n].stage = "transcribing"]
    /\ isTranscribing' = TRUE
    /\ UNCHANGED <<appVars, audioVars, input, isRecording, mediaRecorderRef, micCalls, alerts>>

\* what generateContent can do for a transcription: text, no text, or throw
TranscribeOutcomes == {[text |-> "transcription"], [text |-> ""], Rejects}

\* GeminiService.transcribeAudio: `response.text || null`, and null on a throw
transcribeAudio(outcome) ==
    IF outcome = Rejects THEN Null
    ELSE IF outcome.text = "" THEN Null
    ELSE [text |-> outcome.text]

\* reader.onloadend after `await transcribeAudio`
TranscribeReturns(n, outcome) ==
    /\ n \in 1..Len(recorders)
    /\ recorders[n].stage = "transcribing"
    /\ LET transcription == transcribeAudio(outcome)
       IN  /\ input' = IF transcription # Null THEN transcription.text ELSE input
           /\ recorders' = [recorders EXCEPT ![n] = [stage |-> "done",
                                                      result |-> transcription]]
    /\ isTranscribing' = FALSE
    /\ UNCHANGED <<appVars, audioVars, isRecording, mediaRecorderRef, micCalls, alerts>>

\* onChange of the text field, which is disabled while processing, recording
\* or transcribing
TypeInput ==
    /\ ~isProcessing /\ ~isRecording /\ ~isTranscribing
    /\ input # "typed"
    /\ input' = "typed"
    /\ UNCHANGED <<appVars, audioVars, isRecording, isTranscribing, mediaRecorderRef,
                   recorders, micCalls, alerts>>

\* the submit button: handleSubmit returns at once on an empty input
SubmitInput(t) ==
    /\ input # ""
    /\ HandleSendMessage(t)

InitCapture ==
    /\ CaptureIdle
    /\ tzOffset = BrasiliaOffset
    /\ lsTransactions = <<>>
    /\ lsBudgets = <<>>
    /\ lsGoals = <<>>
    /\ lsKeys = StorageKeys
    /\ transactions = <<>>
    /\ budgets = <<>>
    /\ goals = <<>>
    /\ summary = InitialSummary
    /\ isLoading = FALSE
    /\ messages = << [id |-> 0, role |-> "assistant", content |-> "welcome"] >>
    /\ isProcessing = FALSE
    /\ turns = [t \in Turns |-> IdleTurn]
    /\ timers = <<>>
    /\ nextId = 1
    /\ edits = 0
    /\ playingId = NoId
    /\ isPaused = FALSE
    /\ audioCtx = "none"
    /\ sourceNodeRef = 0
    /\ sources = <<>>
    /\ synthCalls = <<>>
    /\ ctxOps = <<>>

\* the turns of this specification are the ones the parser does not accept
NextCapture ==
    \/ StartRecording
    \/ MicGranted
    \/ MicDenied
    \/ StopRecording
    \/ \E n \in 1..MaxRecordings : OnStop(n)
    \/ \E n \in 1..MaxRecordings : OnLoadEnd(n)
    \/ \E n \in 1..MaxRecordings, outcome \in TranscribeOutcomes : TranscribeReturns(n, outcome)
    \/ TypeInput
    \/ \E t \in Turns : SubmitInput(t)
    \/ \E t \in Turns : ParseReturns(t, NoText)

SpecCapture == InitCapture /\ [][NextCapture]_vars

\* a recorder whose clip has not been through its transcription yet
Capturing(n) == recorders[n].stage \in {"recording", "stopping", "reading", "transcribing"}

\* the capture state Idle: neither recording nor transcribing
CaptureIsIdle == ~isRecording /\ ~isTranscribing

\* getUserMedia settled with a rejection
Denied == micCalls' < micCalls /\ Len(recorders') = Len(recorders)

\* C23: when getUserMedia rejects, an alert is shown, the recording and
\* transcribing flags keep their values (an Idle capture stays Idle), no
\* recorder is created and none moves on, so no transcription is called for
\* the request
C23_DeniedStaysIdle ==
    [][Denied => /\ alerts' = alerts + 1
                 /\ isRecording' = isRecording /\ isTranscribing' = isTranscribing
                 /\ recorders' = recorders /\ mediaRecorderRef' = mediaRecorderRef
                 /\ input' = input /\ messages' = messages]_vars

\* C23, its case: a denied request left capture Idle with no recorder
C23_Witness == alerts > 0 /\ CaptureIsIdle /\ recorders = <<>> /\ micCalls = 0

\* C24: a start request is taken only when no recording is started or being
\* started, a recorder is created only when none is recording, and no
\* recorder is stopped while capture is not recording
C24_StartAndStopNoOps ==
    [][/\ micCalls' > micCalls => micCalls = 0 /\ ~isRecording
       /\ Len(recorders') > Len(recorders) =>
              \A n \in 1..Len(recorders) : recorders[n].stage # "recording"
       /\ ~isRecording => \A n \in 1..Len(recorders) :
              recorders[n].stage = "recording" => recorders'[n].stage = "recording"]_vars

\* C25: from the start of a recording until its transcription is handled,
\* submission and a new recording are disabled, i.e. the recording or the
\* transcribing flag is set
C25_DisabledUntilHandled ==
    \A n \in 1..Len(recorders) : Capturing(n) => isRecording \/ isTranscribing

\* C26: when the transcription call of a clip returns, capture is Idle, a
\* text is the pending input, no text leaves the pending input as it was,
\* and no turn is started
C26_TranscribingToIdle ==
    [][\A n \in 1..Len(recorders) :
          (recorders[n].stage = "transcribing" /\ recorders'[n].stage = "done") =>
              /\ CaptureIsIdle'
              /\ IF recorders'[n].result = Null THEN input' = input
                 ELSE input' = recorders'[n].result.text
              /\ messages' = messages /\ turns' = turns
              /\ isProcessing' = isProcessing]_vars

\* ---------------------------------------------------------------------------
\* The transcript and the store under overlapping operations
\* ---------------------------------------------------------------------------

IsPrefix(a, b) == Len(a) <= Len(b) /\ SubSeq(b, 1, Len(a)) = a

\* C27: in every step the new transcript is the old one with zero or more
\* messages added at the end
C27_TranscriptAppendOnly == [][IsPrefix(messages, messages')]_vars

IdsOf(txs) == {txs[i].id : i \in 1..Len(txs)}

\* the step is the data reset
ResetStep == edits' = edits + 1 /\ Len(messages') = 1 /\ messages'[1].content = "reset"

\* the step is the write of the store operation whose timer is due
WriteStep(kind) == timers # <<>> /\ Head(timers).kind = kind /\ lsTransactions' # lsTransactions

\* C28: every write of the transaction collection other than the reset
\* touches the records of one id and leaves the records of every other id
\* as they are, in their order: the add of a turn puts its record at the
\* end, a delete removes its id, an update replaces the record of its id;
\* so overlapping operations on different ids both take effect
C28_LastWriteWinsPerId ==
    [][(lsTransactions' # lsTransactions /\ ~ResetStep) =>
          /\ \E id \in IdsOf(lsTransactions) \cup IdsOf(lsTransactions') :
                 Filtered(lsTransactions', id) = Filtered(lsTransactions, id)
          /\ WriteStep("add") =>
                 lsTransactions' = Append(lsTransactions, turns[Head(timers).owner].parsed)
          /\ WriteStep("delete") =>
                 /\ Head(timers).id \notin IdsOf(lsTransactions')
                 /\ lsTransactions' = Filtered(lsTransactions, Head(timers).id)
          /\ WriteStep("update") =>
                 /\ \E i \in 1..Len(lsTransactions') : lsTransactions'[i] = Head(timers).tx
                 /\ Filtered(lsTransactions', Head(timers).tx.id)
                        = Filtered(lsTransactions, Head(timers).tx.id)]_vars

\* C28, its case: a turn added its record and the dashboard deleted another
\* one while that add was pending (the delete's refresh is queued behind the
\* turn's), and the store holds the one and not the other
C28_Witness ==
    \E t \in Turns :
        /\ Len(timers) = 4
        /\ timers[1] = [kind |-> "fetchTx", owner |-> t]
        /\ timers[3] = [kind |-> "fetchTx", owner |-> 0]
        /\ Len(turns[t].persisted) = 1
        /\ turns[t].persisted[1] \in IdsOf(lsTransactions)
        /\ PriorTransactions[1].id \notin IdsOf(lsTransactions)
        /\ messages[1].content = "welcome"

\* ---------------------------------------------------------------------------
\* seedData and resetData over a storage that may lack keys
\* ---------------------------------------------------------------------------

\* the day number of the first day of the month of `new Date()` at load time
SeedMonthStart == 0

\* new Date(year, month, d).toISOString(): midnight of day d, local time
SeedDate(d, tz) == (SeedMonthStart + d - 1) * HoursPerDay - tz

\* the ids '1'..'6' of the seed, which no randomUUID() returns
SeedId(k) == 100 + k

SeedTransactions(tz) ==
    << [id |-> SeedId(1), date |-> SeedDate(5, tz), type |-> INCOME, amount |-> 5000,
        category |-> "Salário", description |-> "Salário Mensal"],
       [id |-> SeedId(2), date |-> SeedDate(6, tz), type |-> EXPENSE, amount |-> 120,
        category |-> "Contas", description |-> "Conta de Luz"],
       [id |-> SeedId(3), date |-> SeedDate(8, tz), type |-> EXPENSE, amount |-> 65,
        category |-> "Alimentação", description |-> "Jantar no Mario's"],
       [id |-> SeedId(4), date |-> SeedDate(10, tz), type |-> EXPENSE, amount |-> 200,
        category |-> "Transporte", description |-> "Uber"],
       [id |-> SeedId(5), date |-> SeedDate(12, tz), type |-> EXPENSE, amount |-> 450,
        category |-> "Alimentação", description |-> "Compras do Mês"],
       [id |-> SeedId(6), date |-> SeedDate(15, tz), type |-> EXPENSE, amount |-> 150,
        category |-> "Lazer", description |-> "Cinema e Pipoca"] >>

SeedBudgets ==
    << [id |-> SeedId(1), category |-> "Alimentação", limit |-> 800, period |-> "MONTHLY"],
       [id |-> SeedId(2), category |-> "Transporte", limit |-> 400, period |-> "MONTHLY"],
       [id |-> SeedId(3), category |-> "Lazer", limit |-> 300, period |-> "MONTHLY"] >>

SeedGoals ==
    << [id |-> SeedId(1), name |-> "Viagem Europa", targetAmount |-> 5000,
        currentAmount |-> 1500, deadline |-> "2024-12-31"],
       [id |-> SeedId(2), name |-> "Reserva de Emergência", targetAmount |-> 10000,
        currentAmount |-> 8000] >>

\* a goal an earlier visit stored
PriorGoals == << [id |-> 0, name |-> "Viagem", targetAmount |-> 100, currentAmount |-> 10] >>

\* a slip: every load writes the seed
seedDataAlways(key, stored, seed) == seed

\* one `if (!localStorage.getItem(KEY)) { ... setItem(KEY, ...) }` of
\* seedData: an item that is there is a JSON array, never the empty string
seedData(key, stored, seed) == IF key \in lsKeys THEN stored ELSE seed

\* the page loads: the module runs seedData(), App mounts with its initial
\* state, and its effect calls fetchData() and sets the welcome message
LoadPage ==
    /\ lsTransactions' = seedData("finai_transactions", lsTransactions,
                                  SeedTransactions(tzOffset))
    /\ lsBudgets' = seedData("finai_budgets", lsBudgets, SeedBudgets)
    /\ lsGoals' = seedData("finai_goals", lsGoals, SeedGoals)
    /\ lsKeys' = StorageKeys
    /\ transactions' = <<>>
    /\ budgets' = <<>>
    /\ goals' = <<>>
    /\ summary' = InitialSummary
    /\ isLoading' = TRUE
    /\ messages' = << [id |-> 0, role |-> "assistant", content |-> "welcome"] >>
    /\ isProcessing' = FALSE
    /\ turns' = [t \in Turns |-> IdleTurn]
    /\ timers' = FetchTimers(0, lsBudgets', lsGoals')
    /\ nextId' = 1
    /\ playingId' = NoId
    /\ isPaused' = FALSE
    /\ audioCtx' = "none"
    /\ sourceNodeRef' = 0
    /\ sources' = <<>>
    /\ synthCalls' = <<>>
    /\ ctxOps' = <<>>
    /\ input' = ""
    /\ isRecording' = FALSE
    /\ isTranscribing' = FALSE
    /\ mediaRecorderRef' = 0
    /\ recorders' = <<>>
    /\ micCalls' = 0
    /\ alerts' = 0
    /\ UNCHANGED <<tzOffset, edits>>

\* what localStorage may hold for a key before the page loads: nothing, or
\* the collection an earlier visit left
StoredBefore(key, left) == IF key \in lsKeys THEN left ELSE {<<>>}

\* the browser before the page loads: any of the keys may be missing
InitSeed ==
    /\ CaptureIdle
    /\ tzOffset = BrasiliaOffset
    /\ lsKeys \in SUBSET StorageKeys
    /\ lsTransactions \in StoredBefore("finai_transactions", {<<>>, PriorTransactions})
    /\ lsBudgets \in StoredBefore("finai_budgets", {<<>>, PriorBudgets})
    /\ lsGoals \in StoredBefore("finai_goals", {<<>>, PriorGoals})
    /\ transactions = <<>>
    /\ budgets = <<>>
    /\ goals = <<>>
    /\ summary = InitialSummary
    /\ isLoading = TRUE
    /\ messages = <<>>
    /\ isProcessing = FALSE
    /\ turns = [t \in Turns |-> IdleTurn]
    /\ timers = <<>>
    /\ nextId = 1
    /\ edits = 0
    /\ playingId = NoId
    /\ isPaused = FALSE
    /\ audioCtx = "none"
    /\ sourceNodeRef = 0
    /\ sources = <<>>
    /\ synthCalls = <<>>
    /\ ctxOps = <<>>

NextSeed ==
    \/ LoadPage
    \/ FetchTransactions
    \/ FetchCommit
    \/ HandleResetData

SpecSeed == InitSeed /\ [][NextSeed]_vars

\* the step is a load of the page
LoadStep ==
    /\ messages' # <<>> /\ messages'[1].content = "welcome"
    /\ isLoading' /\ nextId' = 1
    /\ timers' = FetchTimers(0, lsBudgets', lsGoals')

AllEmpty == lsTransactions = <<>> /\ lsBudgets = <<>> /\ lsGoals = <<>>

\* C29: the reset leaves the three keys present with empty collections; a
\* load of the page populates a collection only when its key is absent and
\* leaves a present one as it is, so after a reset every load leaves the
\* three collections empty
C29_ResetThenSeedStaysEmpty ==
    /\ [][/\ ResetStep => lsKeys' = StorageKeys /\ AllEmpty'
          /\ LoadStep => /\ lsKeys' = StorageKeys
                         /\ lsTransactions' = IF "finai_transactions" \in lsKeys
                                              THEN lsTransactions
                                              ELSE SeedTransactions(tzOffset)
                         /\ lsBudgets' = IF "finai_budgets" \in lsKeys
                                         THEN lsBudgets ELSE SeedBudgets
                         /\ lsGoals' = IF "finai_goals" \in lsKeys
                                       THEN lsGoals ELSE SeedGoals]_vars
    /\ [](edits > 0 => AllEmpty /\ lsKeys = StorageKeys)

\* C29, its case: the page was loaded again after a reset, and loaded its
\* empty collections
C29_Witness ==
    /\ edits > 0 /\ AllEmpty
    /\ messages # <<>> /\ messages[1].content = "welcome"
    /\ ~isLoading /\ transactions = <<>> /\ budgets = <<>> /\ goals = <<>>
    /\ timers = <<>>

\* ---------------------------------------------------------------------------
\* Overlap of turns
\* ---------------------------------------------------------------------------

InFlight(t) == turns[t].pc \notin {"idle", "done"}

Started(t) == turns[t].pc # "idle"

PositionsOf(id) == {i \in 1..Len(messages) : messages[i].id = id}

FlagFollowsTurns == isProcessing <=> \E t \in Turns : InFlight(t)

\* the step starts a turn
StartsTurn == \E t \in Turns : ~Started(t) /\ Started(t)'

\* C37: the processing flag is true exactly in the states in which a turn
\* has started and not ended; while it is true no turn is started, no
\* recording is requested and no recording starts
C37_ProcessingFlag ==
    /\ []FlagFollowsTurns
    /\ [][isProcessing => /\ ~StartsTurn
                          /\ micCalls' <= micCalls
                          /\ Len(recorders') = Len(recorders)]_vars

\* the flag and the requests alone: it follows the turns, and while it is
\* set no turn is started and no recording is requested
FlagBlocksRequests ==
    /\ []FlagFollowsTurns
    /\ [][isProcessing => ~StartsTurn /\ micCalls' <= micCalls]_vars

\* ---------------------------------------------------------------------------
\* The handlers when their collaborators fail
\* ---------------------------------------------------------------------------

\* what the parsing call does here: it rejects, or gives the complete record
FailingParse == {Rejects, Full}

\* the chat, the capture and the playback together, with a transcription and
\* a synthesis that always fail and a parse, a store, a summary and an advice
\* that may
NextFailures ==
    \/ TypeInput
    \/ \E t \in Turns : SubmitInput(t)
    \/ \E t \in Turns, response \in FailingParse : ParseReturns(t, response)
    \/ \E t \in Turns : AddTransactionDone(t)
    \/ \E t \in Turns : AddTransactionThrows(t)
    \/ FetchTransactions
    \/ FetchCommit
    \/ FetchFails
    \/ SettledTimer
    \/ \E t \in Turns : SummaryReturns(t)
    \/ \E t \in Turns : SummaryThrows(t)
    \/ \E t \in Turns : AdviceReturns(t, "throws")
    \/ StartRecording
    \/ MicGranted
    \/ MicDenied
    \/ StopRecording
    \/ \E n \in 1..MaxRecordings : OnStop(n)
    \/ \E n \in 1..MaxRecordings : OnLoadEnd(n)
    \/ \E n \in 1..MaxRecordings : TranscribeReturns(n, Rejects)
    \/ \E msgId \in Playable : PlayAudio(msgId)
    \/ \E msgId \in Playable : ToggleAudio(msgId)
    \/ StopAudio
    \/ \E i \in 1..MaxSources : SynthReturnsNull(i)

SpecFailures == InitCapture /\ [][NextFailures]_vars

\* the step in which `call` of turn t throws
Throws(t, call) == Started(t) /\ call \notin turns[t].thrown /\ call \in turns'[t].thrown

\* the step in which the transcription of a clip fails
TranscriptionFails(n) ==
    /\ recorders[n].stage = "transcribing"
    /\ recorders'[n].stage = "done" /\ recorders'[n].result = Null

\* no flag is set without a pending handler that will clear it
NoFlagStuck ==
    /\ isProcessing => \E t \in Turns : InFlight(t)
    /\ isTranscribing => \E n \in 1..Len(recorders) : recorders[n].stage = "transcribing"
    /\ playingId # NoId =>
          \/ \E i \in 1..Len(synthCalls) : synthCalls[i] = playingId
          \/ \E n \in 1..Len(sources) : sources[n].msg = playingId

\* C31: a failure of the parse, the store, the summary or the advice ends
\* its turn with one message and the processing flag cleared (a failure in
\* the refresh lets the turn go on); a refused microphone shows an alert and
\* sets no flag; a failed transcription clears the transcribing flag and
\* leaves the input; a failed synthesis clears playingId; and no flag stays
\* set with no handler left to clear it
C31_FailuresAbsorbed ==
    /\ []NoFlagStuck
    /\ [][/\ \A t \in Turns :
                /\ Throws(t, "parse") => Ends(t) /\ Replies(t, "clarification")
                /\ (Throws(t, "add") \/ Throws(t, "summary")) =>
                       Ends(t) /\ Replies(t, "apology")
                /\ Throws(t, "advice") => Ends(t) /\ Replies(t, "Transação registrada.")
                /\ Throws(t, "fetch") => InFlight(t)' /\ isProcessing'
          /\ Denied => alerts' = alerts + 1 /\ isRecording' = isRecording
                       /\ isTranscribing' = isTranscribing
          /\ \A n \in 1..Len(recorders) :
                TranscriptionFails(n) => ~isTranscribing' /\ input' = input
          /\ \A i \in 1..Len(synthCalls) :
                ReturnsNoAudio(i) => playingId' = NoId]_vars

\* C31, its case: a turn ended on the apology for a failed write, a clip's
\* transcription failed and the microphone was refused once, and every flag
\* is clear with nothing pending
C31_Witness ==
    /\ \E t \in Turns : Done(t) /\ "add" \in turns[t].thrown
    /\ \E n \in 1..Len(recorders) : recorders[n].stage = "done" /\ recorders[n].result = Null
    /\ alerts > 0
    /\ ~isProcessing /\ ~isRecording /\ ~isTranscribing /\ playingId = NoId
    /\ synthCalls = <<>> /\ timers = <<>>

\* ---------------------------------------------------------------------------
\* The order of the steps of a turn
\* ---------------------------------------------------------------------------

\* the steps of a turn, in the order of handleSendMessage
StepOrder ==
    { <<"idle", "parse">>, <<"parse", "add">>, <<"parse", "done">>,
      <<"add", "fetch">>, <<"add", "done">>, <<"fetch", "summary">>,
      <<"summary", "advice">>, <<"summary", "done">>, <<"advice", "done">> }

\* the step takes turn t from `from` to `to`
Moves(t, from, to) == turns[t].pc = from /\ turns'[t].pc = to

EmptiedByReset == lsTransactions = <<>> /\ messages[1].content = "reset"

Quiet == timers = <<>> /\ \A t \in Turns : ~InFlight(t)

\* C33: once every pending store operation and refresh has completed, the
\* displayed summary is the aggregation of the stored collection and the
\* displayed list is the stored collection
C33_SummaryFollowsStore ==
    Quiet => /\ summary = calculateSummary(lsTransactions, tzOffset)
             /\ transactions = lsTransactions

\* ---------------------------------------------------------------------------
\* A data reset while a store operation is in flight
\* ---------------------------------------------------------------------------

\* the requests of the dashboard that may be waiting for their timer
PendingRequests ==
    { <<>>, << [kind |-> "delete", id |-> PriorTransactions[1].id] >> }
    \cup { << [kind |-> "update", tx |-> Edited(PriorTransactions[1], edit)] >> :
              edit \in EditInputs }

\* the dashboard on display over a store with one transaction and one
\* budget, and possibly a request of the dashboard in flight
InitReset ==
    /\ CaptureIdle
    /\ tzOffset = BrasiliaOffset
    /\ lsTransactions = PriorTransactions
    /\ lsBudgets = PriorBudgets
    /\ lsGoals = <<>>
    /\ lsKeys = StorageKeys
    /\ transactions = lsTransactions
    /\ budgets = lsBudgets
    /\ goals = lsGoals
    /\ summary = calculateSummary(lsTransactions, tzOffset)
    /\ isLoading = FALSE
    /\ messages = << [id |-> 0, role |-> "assistant", content |-> "welcome"] >>
    /\ isProcessing = FALSE
    /\ turns = [t \in Turns |-> IdleTurn]
    /\ timers \in PendingRequests
    /\ nextId = 1
    /\ edits = 0
    /\ playingId = NoId
    /\ isPaused = FALSE
    /\ audioCtx = "none"
    /\ sourceNodeRef = 0
    /\ sources = <<>>
    /\ synthCalls = <<>>
    /\ ctxOps = <<>>

NextReset ==
    \/ \E t \in Turns : HandleSendMessage(t)
    \/ \E t \in Turns : ParseReturns(t, Full)
    \/ \E t \in Turns : AddTransactionDone(t)
    \/ FetchTransactions
    \/ FetchCommit
    \/ \E t \in Turns : SummaryReturns(t)
    \/ \E t \in Turns : AdviceReturns(t, "text")
    \/ StoreRequestDone
    \/ HandleResetData

SpecReset == InitReset /\ [][NextReset]_vars

\* the step stores for the first time the record of a turn that had stored
\* none
FirstStoredBy(id) ==
    \E t \in Turns : /\ timers # <<>> /\ Head(timers) = [kind |-> "add", owner |-> t]
                     /\ turns[t].persisted = <<>>
                     /\ turns[t].parsed.id = id

\* C38: the reset empties the stored collection, and afterwards a
\* transaction enters it only as the new record of a turn; the operations in
\* flight at the reset bring back none of the transactions it removed
C38_ResetRemovesForGood ==
    /\ [][/\ ResetStep => lsTransactions' = <<>>
          /\ \A id \in IdsOf(lsTransactions') \ IdsOf(lsTransactions) : FirstStoredBy(id)]_vars
    /\ [](messages[1].content = "reset" =>
              PriorTransactions[1].id \notin IdsOf(lsTransactions))

\* C38, its case: a request of the dashboard was in flight at the reset and
\* did its write after it (its refresh is queued behind the reset's and read
\* the budgets the reset had emptied), and the stored collection is empty
C38_Witness ==
    /\ messages[1].content = "reset"
    /\ Len(timers) = 4
    /\ \A i \in {1, 3} : timers[i] = [kind |-> "fetchTx", owner |-> 0]
    /\ timers[2].bgs = <<>> /\ timers[4].bgs = <<>>
    /\ lsTransactions = <<>>

\* ---------------------------------------------------------------------------
\* The end-of-audio event and the paused flag
\* ---------------------------------------------------------------------------

\* the step delivers the `ended` event of a source that stop() had stopped
StoppedEnds(n) ==
    /\ n \in 1..Len(sources) /\ Len(sources') = Len(sources)
    /\ sources[n].endedDue /\ ~sources'[n].endedDue

\* every source that plays is the referenced one, and playingId names its
\* message
AudibleIsReferenced ==
    \A n \in 1..Len(sources) :
        sources[n].state = "playing" => sourceNodeRef = n /\ playingId = sources[n].msg

\* C35: the `ended` event of a stopped source leaves playingId and the
\* reference alone while another source plays, and every source that plays
\* is the referenced one with playingId naming its message
C35_EndedOfStoppedIsInert ==
    /\ []AudibleIsReferenced
    /\ [][\A n \in 1..Len(sources) :
             (StoppedEnds(n) /\ \E k \in 1..Len(sources) : sources[k].state = "playing") =>
                 playingId' = playingId /\ sourceNodeRef' = sourceNodeRef]_vars

\* the same for the event alone
EndedOfStoppedAlone ==
    [][\A n \in 1..Len(sources) :
          (StoppedEnds(n) /\ \E k \in 1..Len(sources) :
               /\ sources[k].state = "playing"
               /\ sourceNodeRef = k /\ playingId = sources[k].msg) =>
              playingId' = playingId /\ sourceNodeRef' = sourceNodeRef]_vars

\* a stream for the message playingId names
StreamOfPlayingId ==
    \E n \in 1..Len(sources) : sources[n].msg = playingId /\ sources[n].state = "playing"

\* C36: isPaused is true only while a stream of the message playingId names
\* exists and the audio context is suspended
C36_PausedAgreesWithClock ==
    isPaused => playingId # NoId /\ StreamOfPlayingId /\ audioCtx = "suspended"

\* ---------------------------------------------------------------------------
\* The budget of a turn's status, and what the dashboard shows for it
\* ---------------------------------------------------------------------------

\* C34: the status of a turn is built from the budgets the store holds when
\* the status is built
C34_StatusFromStoredBudgets ==
    [][\A t \in Turns :
          Moves(t, "summary", "advice") =>
              turns'[t].budgetStatus =
                  BudgetStatus(lsBudgets, turns[t].parsed,
                               calculateSummary(lsTransactions, tzOffset))]_vars

\* the budget row of the dashboard:
\* summary.expensesByCategory.find(c => c.name === budget.category)?.value || 0
DashboardSpent(summ, budget) == CategorySpend(summ, budget.category)

\* the budget row of the dashboard: isOver = spent > budget.limit
DashboardIsOver(summ, budget) == DashboardSpent(summ, budget) > budget.limit

\* the sum of the EXPENSE amounts whose category is `cat`, ignoring case
RECURSIVE ExpenseIgnoringCase(_, _)
ExpenseIgnoringCase(txs, cat) ==
    IF txs = <<>> THEN 0
    ELSE (IF Head(txs).type = EXPENSE /\ SameIgnoringCase(Head(txs).category, cat)
          THEN Head(txs).amount ELSE 0)
         + ExpenseIgnoringCase(Tail(txs), cat)

\* C39: the spent amount of a status built against a budget is the sum of
\* the EXPENSE records whose category equals the budget's ignoring case, and
\* the status is the over-budget one exactly when the dashboard marks that
\* budget as over
C39_SpentUnderMatchingRule ==
    \A t \in Turns :
        (HasStatus(t) /\ turns[t].budgetStatus.tier \in {"over", "within"}) =>
            /\ turns[t].budgetStatus.spent =
                   ExpenseIgnoringCase(lsTransactions, MatchedBudget(t).category)
            /\ (turns[t].budgetStatus.tier = "over") <=>
                   DashboardIsOver(summary, MatchedBudget(t))

====
